---- MODULE Spec2Model ----
(***************************************************************************)
(* Verification model of the zotero-plugin-scaffold runtime core:          *)
(*   - MessagingClient, the remote debugging protocol client               *)
(*     (length-prefixed frames, one in-flight request per actor);          *)
(*   - Serve, the watch / debounce / rebuild / reload loop;                *)
(*   - Test, the listener that receives the events of the test run.        *)
(***************************************************************************)
EXTENDS Integers, Sequences, FiniteSets, TLC

(***************************************************************************)
(* Bounds of the model.                                                    *)
(***************************************************************************)
MaxRequests == 2    \* request() calls that create a deferred
MaxSockets == 1     \* connect() calls (each creates one socket)
MaxBuffer == 8      \* bytes held in incomingData plus the arriving fill
MaxFrames == 3      \* frames of a well-formed stream (SpecFrames)
MaxFill == 8        \* bytes handed to onData by one fill (SpecFrames)
MaxChanges == 3     \* 'change' events of the watcher (SpecServe)
TickMs == 250       \* longest stretch of time passing in one step (SpecServe)
MaxInput == 5       \* bytes of the fill handed to the framer (SpecParse)
MaxEvents == 5      \* events of the mocha runner in one test run (SpecTest)
MaxPosts == 3       \* requests sent to the listener by any client (SpecHttp)
MaxPorts == 3       \* TCP ports of the machine (SpecRun)

(***************************************************************************)
(* Bytes.  A Buffer is a sequence of one-character strings.                *)
(***************************************************************************)
Digits == {"0", "1", "2", "3", "4", "5", "6", "7", "8", "9"}

DigitVal ==
  ("0" :> 0) @@ ("1" :> 1) @@ ("2" :> 2) @@ ("3" :> 3) @@ ("4" :> 4) @@
  ("5" :> 5) @@ ("6" :> 6) @@ ("7" :> 7) @@ ("8" :> 8) @@ ("9" :> 9)

\* A JavaScript number as far as the framer needs it: NaN or an integer.
NaN == [nan |-> TRUE, value |-> 0]
Num(n) == [nan |-> FALSE, value |-> n]

Min(a, b) == IF a < b THEN a ELSE b
Max(a, b) == IF a < b THEN b ELSE a

\* String.prototype.indexOf(":"): index (from 0) of the first ':', -1 if none.
RECURSIVE IndexFrom(_, _, _)
IndexFrom(s, ch, i) ==
  IF i > Len(s) THEN -1
  ELSE IF s[i] = ch THEN i - 1
  ELSE IndexFrom(s, ch, i + 1)

IndexOf(s, ch) == IndexFrom(s, ch, 1)

\* Buffer.prototype.slice(start, end): negative offsets count from the end,
\* offsets are clamped to the buffer, an empty range gives an empty buffer.
SliceOffset(n, k) == IF k < 0 THEN Max(n + k, 0) ELSE Min(k, n)

Slice(buf, start, end) ==
  LET lo == SliceOffset(Len(buf), start)
      hi == SliceOffset(Len(buf), end)
  IN  IF hi <= lo THEN <<>> ELSE SubSeq(buf, lo + 1, hi)

SliceFrom(buf, start) == Slice(buf, start, Len(buf))

\* Number.parseInt(s, 10): skip leading white space, take an optional sign,
\* then the longest run of digits; NaN when that run is empty.  Whatever
\* follows the digits is ignored.
RECURSIVE SkipSpace(_)
SkipSpace(s) ==
  IF s # <<>> /\ Head(s) = " " THEN SkipSpace(Tail(s)) ELSE s

RECURSIVE DigitRun(_, _, _)
DigitRun(s, acc, seen) ==
  IF s # <<>> /\ Head(s) \in Digits
    THEN DigitRun(Tail(s), 10 * acc + DigitVal[Head(s)], TRUE)
    ELSE [value |-> acc, seen |-> seen]

ParseInt(str) ==
  LET t == SkipSpace(str)
      neg == t # <<>> /\ Head(t) = "-"
      signed == t # <<>> /\ Head(t) \in {"-", "+"}
      run == DigitRun(IF signed THEN Tail(t) ELSE t, 0, FALSE)
  IN  IF ~run.seen THEN NaN
      ELSE IF neg THEN Num(0 - run.value) ELSE Num(run.value)

(***************************************************************************)
(* Messages and their payload text.  The JSON text of a message is         *)
(* abbreviated to a short code: one byte naming the sender ("r" root,      *)
(* "a"; "n" for an object without `from`), followed by "e" when the        *)
(* object carries an `error` member.  A bare JSON number is itself.  Any   *)
(* other payload is not JSON.                                              *)
(***************************************************************************)
Actors == {"root", "a"}
NoFrom == "undefined"
ActorCode == ("r" :> "root") @@ ("a" :> "a") @@ ("n" :> NoFrom)

Message(from, error) ==
  [kind |-> "object", from |-> from, error |-> error, value |-> 0]
JsonNumber(n) ==
  [kind |-> "number", from |-> NoFrom, error |-> FALSE, value |-> n]
SyntaxError ==
  [kind |-> "SyntaxError", from |-> NoFrom, error |-> FALSE, value |-> 0]

Messages ==
  {Message(f, e) : f \in Actors, e \in BOOLEAN} \cup {Message(NoFrom, FALSE)}

\* JSON.stringify of an inbound message (what the target writes).
CodeOf(from) == CHOOSE ch \in DOMAIN ActorCode : ActorCode[ch] = from

Stringify(m) ==
  IF m.error THEN <<CodeOf(m.from), "e">> ELSE <<CodeOf(m.from)>>

\* JSON.parse: objects by the code above, JSON numbers (no leading zero,
\* optional minus), a SyntaxError for everything else.
IsJsonNumber(text) ==
  LET body == IF text # <<>> /\ Head(text) = "-" THEN Tail(text) ELSE text
  IN  /\ body # <<>>
      /\ \A i \in 1..Len(body) : body[i] \in Digits
      /\ (Len(body) > 1 => body[1] # "0")

\* White space around the value is skipped.
RECURSIVE TrimEnd(_)
TrimEnd(s) ==
  IF s # <<>> /\ s[Len(s)] = " " THEN TrimEnd(SubSeq(s, 1, Len(s) - 1)) ELSE s

JsonParse(source) ==
  LET text == TrimEnd(SkipSpace(source))
  IN  IF Len(text) = 1 /\ text[1] \in DOMAIN ActorCode
        THEN Message(ActorCode[text[1]], FALSE)
      ELSE IF Len(text) = 2 /\ text[1] \in DOMAIN ActorCode /\ text[2] = "e"
        THEN Message(ActorCode[text[1]], TRUE)
      ELSE IF IsJsonNumber(text) THEN JsonNumber(ParseInt(text).value)
      ELSE SyntaxError

\* JavaScript truthiness of a parsed value.
Truthy(v) == ~(v.kind = "number" /\ v.value = 0)

\* message.from that takes a message without `from` to come from root.
FromOfDefaulting(v) == IF v.from = NoFrom THEN "root" ELSE v.from

\* message.from / message.error of a parsed value (undefined on a number).
FromOf(v) == v.from
HasError(v) == v.error

(***************************************************************************)
(* parseMessage: one step of the framer.                                   *)
(***************************************************************************)
NoMessage == [kind |-> "none", from |-> NoFrom, error |-> FALSE, value |-> 0]
NoError == "none"

\* parseMessage that waits for more bytes although the payload is complete.
parseMessageGreedy(data) ==
  LET separatorIndex == IndexOf(data, ":")
      parsedLength == ParseInt(SubSeq(data, 1, separatorIndex))
      messageLength == parsedLength.value
      messageContent ==
        Slice(data, separatorIndex + 1, separatorIndex + 1 + messageLength)
      remainingData == SliceFrom(data, separatorIndex + 1 + messageLength)
      parsed == JsonParse(messageContent)
  IN  IF separatorIndex < 1
        THEN [remainingData |-> data, parsedMessage |-> NoMessage,
              error |-> NoError, fatal |-> FALSE]
      ELSE IF parsedLength.nan
        THEN [remainingData |-> data, parsedMessage |-> NoMessage,
              error |-> "length", fatal |-> TRUE]
      ELSE IF Len(data) - (separatorIndex + 1) <= messageLength
        THEN [remainingData |-> data, parsedMessage |-> NoMessage,
              error |-> NoError, fatal |-> FALSE]
      ELSE IF parsed.kind = "SyntaxError"
        THEN [remainingData |-> remainingData, parsedMessage |-> NoMessage,
              error |-> "payload", fatal |-> FALSE]
      ELSE [remainingData |-> remainingData, parsedMessage |-> parsed,
            error |-> NoError, fatal |-> FALSE]

\* parseMessage that takes a payload that does not decode for fatal.
parseMessageStrict(data) ==
  LET separatorIndex == IndexOf(data, ":")
      parsedLength == ParseInt(SubSeq(data, 1, separatorIndex))
      messageLength == parsedLength.value
      messageContent ==
        Slice(data, separatorIndex + 1, separatorIndex + 1 + messageLength)
      remainingData == SliceFrom(data, separatorIndex + 1 + messageLength)
      parsed == JsonParse(messageContent)
  IN  IF separatorIndex < 1
        THEN [remainingData |-> data, parsedMessage |-> NoMessage,
              error |-> NoError, fatal |-> FALSE]
      ELSE IF parsedLength.nan
        THEN [remainingData |-> data, parsedMessage |-> NoMessage,
              error |-> "length", fatal |-> TRUE]
      ELSE IF Len(data) - (separatorIndex + 1) < messageLength
        THEN [remainingData |-> data, parsedMessage |-> NoMessage,
              error |-> NoError, fatal |-> FALSE]
      ELSE IF parsed.kind = "SyntaxError"
        THEN [remainingData |-> remainingData, parsedMessage |-> NoMessage,
              error |-> "payload", fatal |-> TRUE]
      ELSE [remainingData |-> remainingData, parsedMessage |-> parsed,
            error |-> NoError, fatal |-> FALSE]

parseMessage(data) ==
  LET separatorIndex == IndexOf(data, ":")
      parsedLength == ParseInt(SubSeq(data, 1, separatorIndex))
      messageLength == parsedLength.value
      messageContent ==
        Slice(data, separatorIndex + 1, separatorIndex + 1 + messageLength)
      remainingData == SliceFrom(data, separatorIndex + 1 + messageLength)
      parsed == JsonParse(messageContent)
  IN  IF separatorIndex < 1
        THEN [remainingData |-> data, parsedMessage |-> NoMessage,
              error |-> NoError, fatal |-> FALSE]
      ELSE IF parsedLength.nan
        THEN [remainingData |-> data, parsedMessage |-> NoMessage,
              error |-> "length", fatal |-> TRUE]
      ELSE IF Len(data) - (separatorIndex + 1) < messageLength
        THEN [remainingData |-> data, parsedMessage |-> NoMessage,
              error |-> NoError, fatal |-> FALSE]
      ELSE IF parsed.kind = "SyntaxError"
        THEN [remainingData |-> remainingData, parsedMessage |-> NoMessage,
              error |-> "payload", fatal |-> FALSE]
      ELSE [remainingData |-> remainingData, parsedMessage |-> parsed,
            error |-> NoError, fatal |-> FALSE]

(***************************************************************************)
(* State.                                                                  *)
(*                                                                         *)
(* MessagingClient fields: incomingData, pendingRequests, activeRequests,  *)
(* connection (0 is `undefined`, otherwise the index of a socket).         *)
(*                                                                         *)
(* Environment and observation of the client:                              *)
(*   sockets     every socket created by connect(): its state, whether     *)
(*               the client's listeners are still attached, and the state  *)
(*               of the promise of that connect() (the first call on its   *)
(*               {resolve, reject} pair);                                  *)
(*   requests    for every promise created by request(), in creation       *)
(*               order: its target and, in order, the calls made on its    *)
(*               deferred and the write of the request ("write");          *)
(*   wire        the requests handed to connection.write, in order;        *)
(*   emitted     the events emitted by the last operation;                 *)
(*   thrown      what the last operation threw to its caller;              *)
(*   hung        the decode loop of onData does not terminate.             *)
(***************************************************************************)
VARIABLES incomingData, pendingRequests, activeRequests, connection,
          sockets, requests, wire, emitted, thrown, hung

clientVars == <<incomingData, pendingRequests, activeRequests, connection,
                sockets, requests, wire, emitted, thrown, hung>>

(***************************************************************************)
(* A well-formed inbound stream and what the client made of it:            *)
(*   sent        the messages the target wrote, one frame each;            *)
(*   stream      the bytes of those frames not yet handed to onData;       *)
(*   delivered   the messages passed to handleMessage, in order;           *)
(*   reported    a framing error was emitted;                              *)
(*   split       some fill ended inside a frame;                           *)
(*   multi       some fill completed more than one frame.                  *)
(***************************************************************************)
VARIABLES sent, stream, delivered, reported, split, multi

frameVars == <<sent, stream, delivered, reported, split, multi>>

(***************************************************************************)
(* Serve.                                                                  *)
(*   isTest       NODE_ENV is "test";                                      *)
(*   phase        the await Serve.run() is at;                             *)
(*   alive        the process has not ended (by an unhandled error or by   *)
(*                process.exit);                                           *)
(*   timers       the armed timeouts, each by the time left to its expiry; *)
(*   timeoutId    debounce: the timeout it holds (Null for none);          *)
(*   pendingArgs  debounce: the path of the latest call (NoArgs for none); *)
(*   cycles       the onChange calls in progress, in starting order: the   *)
(*                path, the await each is at, the number of cycles that    *)
(*                had failed and the number of 'change' events seen when   *)
(*                it started, and whether its build step has completed;    *)
(*   changes, bursts, started, failures, logged                            *)
(*                counts of 'change' events, of those at least DebounceMs  *)
(*                after the one before, of cycles started, of cycles that  *)
(*                failed and of errors logged by the watcher;              *)
(*   sinceChange  time since the latest 'change' event, up to DebounceMs   *)
(*                (Null before the first);                                 *)
(*   built, ran   builder.run() and runner.run() of Serve.run have         *)
(*                completed;                                               *)
(*   assetChange  the number of the latest 'change' event of a file that   *)
(*                is not a script (0 for none);                            *)
(*   fullBuild    the latest 'change' event seen by a cycle whose          *)
(*                builder.run() has completed (0 for none);                *)
(*   shutdown     the calls made by Serve.exit, in order, each with its    *)
(*                outcome;                                                 *)
(*   exited       the code of process.exit (Null while the process runs);  *)
(*   changed      the paths of the watcher's "change" events, in order;    *)
(*   target       the change whose build the target loaded last (0: the    *)
(*                build of run()).                                         *)
(***************************************************************************)
VARIABLES isTest, phase, alive, timers, timeoutId, pendingArgs, cycles,
          changes, bursts, started, failures, logged, sinceChange,
          built, ran, assetChange, fullBuild, shutdown, exited, changed,
          target

serveVars == <<isTest, phase, alive, timers, timeoutId, pendingArgs, cycles,
               changes, bursts, started, failures, logged, sinceChange,
               built, ran, assetChange, fullBuild, shutdown, exited,
               changed, target>>

(***************************************************************************)
(* One call of the framer on a buffer that arrives in one fill:            *)
(*   input       the bytes of the fill;                                    *)
(*   result      what parseMessage returned for them (Unparsed before).    *)
(***************************************************************************)
VARIABLES input, result

parseVars == <<input, result>>

(***************************************************************************)
(* Test.                                                                   *)
(*   abortOnFail, exitOnFinish   ctx.test of the run;                      *)
(*   closes      calls of communicator.server.close() so far;              *)
(*   exitCode    the code the process has exited with (Null while it       *)
(*               runs);                                                    *)
(*   posted      the types of the events passed to onHttpDataUpdated, in   *)
(*               order;                                                    *)
(*   passed, failed, aborted                                               *)
(*               the counters of the Reporter that Test injects into the   *)
(*               test page (they live in the target);                      *)
(*   ended       the mocha runner has emitted 'end';                       *)
(*   outbox      the events the Reporter has sent that have not arrived;   *)
(*   exchanges   the requests the listener has received, in order, each    *)
(*               with the response it was given (NoResponse for none).     *)
(***************************************************************************)
VARIABLES abortOnFail, exitOnFinish, closes, exitCode, posted,
          passed, failed, aborted, ended, outbox, exchanges

testVars == <<abortOnFail, exitOnFinish, closes, exitCode, posted,
              passed, failed, aborted, ended, outbox, exchanges>>

(***************************************************************************)
(* Test.run.                                                               *)
(*   step        the step Test.run is at (an index of TestSteps, or        *)
(*               Returned, Rejected, Crashed);                             *)
(*   taken       the ports bound by other processes of the machine;        *)
(*   free        the port the promise of findFreeTcpPort resolved with;    *)
(*   port        communicator.port;                                        *)
(*   bound       the port the socket of communicator.server is bound to;   *)
(*   bootstrap, page                                                       *)
(*               the port written into the generated bootstrap.js and      *)
(*               index.xhtml, as a one-element sequence (<<>> before the   *)
(*               file is written);                                         *)
(*   launched    startZotero has been called.                              *)
(* Null stands for undefined.                                              *)
(***************************************************************************)
VARIABLES step, taken, free, port, bound, bootstrap, page, launched

runVars == <<step, taken, free, port, bound, bootstrap, page, launched>>

(***************************************************************************)
(* PrefsManager.                                                           *)
(*   prefs       the stored preferences, a map from keys to values;        *)
(*   inserted    the keys of prefs in the order of their insertion (the    *)
(*               order of the properties of the object);                   *)
(*   lastSet     the latest setPref call: its key, its value and what      *)
(*               getPref answered for the key before it (<<>> for none).   *)
(***************************************************************************)
VARIABLES prefs, inserted, lastSet

prefsVars == <<prefs, inserted, lastSet>>

(***************************************************************************)
(* Build.run.                                                              *)
(*   production   NODE_ENV is "production";                                *)
(*   enable       ctx.build.makeManifest.enable;                           *)
(*   buildAt      the await Build.run() is at;                             *)
(*   disk         for every file of the build, the step whose output is on *)
(*                disk ("none" for no file, "partial" for a file that is   *)
(*                being written);                                          *)
(*   floating     the writes that were started and not awaited: the file   *)
(*                and the step that started the write;                     *)
(*   readLog      the reads of the steps, in order: the step, the file,    *)
(*                what it saw on disk and the step that wrote the file     *)
(*                last before it in run().                                 *)
(***************************************************************************)
VARIABLES production, enable, buildAt, disk, floating, readLog

buildVars == <<production, enable, buildAt, disk, floating, readLog>>

\* What an operation of the client, of Serve, of Test and of PrefsManager
\* leaves alone.
notClient ==
  <<frameVars, parseVars, serveVars, testVars, runVars, prefsVars, buildVars>>
notServe ==
  <<clientVars, frameVars, parseVars, testVars, runVars, prefsVars, buildVars>>
notTest ==
  <<clientVars, frameVars, parseVars, serveVars, runVars, prefsVars, buildVars>>
notRun ==
  <<clientVars, frameVars, parseVars, serveVars, testVars, prefsVars,
    buildVars>>
notPrefs ==
  <<clientVars, frameVars, parseVars, serveVars, testVars, runVars, buildVars>>
notBuild ==
  <<clientVars, frameVars, parseVars, serveVars, testVars, runVars, prefsVars>>

\* The client and its observation as one value, at the start of an operation
\* (`handled` collects the messages the operation passes to handleMessage).
Self ==
  [incomingData |-> incomingData, pendingRequests |-> pendingRequests,
   activeRequests |-> activeRequests, connection |-> connection,
   sockets |-> sockets, requests |-> requests, wire |-> wire,
   emitted |-> {}, handled |-> <<>>, thrown |-> "none", hung |-> hung]

Becomes(c) ==
  /\ incomingData' = c.incomingData
  /\ pendingRequests' = c.pendingRequests
  /\ activeRequests' = c.activeRequests
  /\ connection' = c.connection
  /\ sockets' = c.sockets
  /\ requests' = c.requests
  /\ wire' = c.wire
  /\ emitted' = c.emitted
  /\ thrown' = c.thrown
  /\ hung' = c.hung

\* A Deferred is named by an integer: n > 0 is the deferred of request n,
\* n < 0 the {resolve, reject} pair of the connect() that made socket -n.
HandshakeOf(s) == 0 - s

\* A call of resolve or reject, named by its cause:
\*   "connected"  resolve() by the 'connect' callback of the socket
\*   "resolve"    resolve(message) by handleMessage
\*   "reply"      reject(message) by handleMessage (message.error)
\*   "closed"     reject(Error("RDP connection closed"))
\*   "stringify"  reject(err) caught in flushPendingRequests
\*   "active"     reject(err) of expectReply's throw, caught in connect
\*   "socket"     reject(err) by the 'error' event of the socket
\* The first call decides a promise; later calls change nothing.
Resolutions == {"connected", "resolve"}
Rejections == {"closed", "reply", "stringify", "active", "socket"}

Calls(log) == SelectSeq(log, LAMBDA e : e # "write")
Outcome(log) == IF Calls(log) = <<>> THEN "pending" ELSE Head(Calls(log))

Call(c, deferred, how) ==
  IF deferred > 0
    THEN [c EXCEPT !.requests[deferred].log = Append(@, how)]
    ELSE [c EXCEPT !.sockets[0 - deferred].promise =
                     IF @ = "pending" THEN how ELSE @]

emit(c, event) == [c EXCEPT !.emitted = @ \cup {event}]

\* Map<string, Deferred>: a function on the keys that are present.
EmptyMap == [a \in {} |-> 0]
MapSet(m, key, value) ==
  [a \in DOMAIN m \cup {key} |-> IF a = key THEN value ELSE m[a]]
MapDelete(m, key) == [a \in DOMAIN m \ {key} |-> m[a]]

(***************************************************************************)
(* MessagingClient methods, as functions of the client value.              *)
(***************************************************************************)
expectReply(c, targetActor, deferred) ==
  IF targetActor \in DOMAIN c.activeRequests
    THEN [c EXCEPT !.thrown = "active"]
    ELSE [c EXCEPT !.activeRequests = MapSet(@, targetActor, deferred)]

\* this.connection.write(messageString)
write(c, id) ==
  [c EXCEPT !.wire = Append(@, id), !.requests[id].log = Append(@, "write")]

\* The callback handed to Array.filter, applied to the elements in order;
\* `kept` collects the elements it returns true for.  The throw for a
\* missing connection leaves this.pendingRequests as it was (the assignment
\* is never reached); a throw inside the try block rejects the request.
\* flushFilter without the test for an active request of the target.
RECURSIVE flushFilterEager(_, _, _)
flushFilterEager(c, rest, kept) ==
  IF rest = <<>> THEN [c EXCEPT !.pendingRequests = kept]
  ELSE
    LET item == Head(rest)
    IN  IF c.connection = 0
          THEN [c EXCEPT !.thrown = "closed"]
        ELSE IF item.circular
          THEN flushFilterEager(Call(c, item.id, "stringify"),
                                Tail(rest), kept)
        ELSE LET e == expectReply(write(c, item.id), item.to, item.id)
             IN  flushFilterEager(IF e.thrown = "none" THEN e
                                  ELSE [Call(e, item.id, "active")
                                          EXCEPT !.thrown = "none"],
                                  Tail(rest), kept)

RECURSIVE flushFilter(_, _, _)
flushFilter(c, rest, kept) ==
  IF rest = <<>> THEN [c EXCEPT !.pendingRequests = kept]
  ELSE
    LET item == Head(rest)
    IN  IF item.to \in DOMAIN c.activeRequests
          THEN flushFilter(c, Tail(rest), Append(kept, item))
        ELSE IF c.connection = 0
          THEN [c EXCEPT !.thrown = "closed"]
        ELSE IF item.circular
          THEN flushFilter(Call(c, item.id, "stringify"), Tail(rest), kept)
        ELSE LET e == expectReply(write(c, item.id), item.to, item.id)
             IN  flushFilter(IF e.thrown = "none" THEN e
                             ELSE [Call(e, item.id, "active")
                                     EXCEPT !.thrown = "none"],
                             Tail(rest), kept)

flushPendingRequests(c) == flushFilter(c, c.pendingRequests, <<>>)

RECURSIVE rejectEach(_, _)
rejectEach(c, deferreds) ==
  IF deferreds = {} THEN c
  ELSE LET d == CHOOSE x \in deferreds : TRUE
       IN  rejectEach(Call(c, d, "closed"), deferreds \ {d})

rejectAllRequests(c) ==
  LET active == {c.activeRequests[a] : a \in DOMAIN c.activeRequests}
      queued == {c.pendingRequests[i].id : i \in DOMAIN c.pendingRequests}
      c1 == [rejectEach(c, active) EXCEPT !.activeRequests = EmptyMap]
  IN  [rejectEach(c1, queued) EXCEPT !.pendingRequests = <<>>]

\* removeAllListeners() and end() on the socket, then rejectAllRequests.
disconnect(c) ==
  IF c.connection = 0 THEN c
  ELSE rejectAllRequests(
         [c EXCEPT !.sockets[c.connection].listeners = FALSE,
                   !.sockets[c.connection].state = "closed"])

\* handleMessage that resolves whatever the reply carries.
handleMessageResolving(c0, message) ==
  LET c == [c0 EXCEPT !.handled = Append(@, message)]
      from == FromOf(message)
  IN  IF from = NoFrom THEN emit(c, "rdp-error")
      ELSE IF from \in DOMAIN c.activeRequests
        THEN LET deferred == c.activeRequests[from]
                 c1 == [c EXCEPT !.activeRequests = MapDelete(@, from)]
             IN  flushPendingRequests(Call(c1, deferred, "resolve"))
      ELSE emit(c, "error:unexpected")

\* handleMessage that closes the connection on an unexpected message.
handleMessageClosing(c0, message) ==
  LET c == [c0 EXCEPT !.handled = Append(@, message)]
      from == FromOf(message)
  IN  IF from = NoFrom THEN emit(c, "rdp-error")
      ELSE IF from \in DOMAIN c.activeRequests
        THEN LET deferred == c.activeRequests[from]
                 c1 == [c EXCEPT !.activeRequests = MapDelete(@, from)]
             IN  flushPendingRequests(
                   Call(c1, deferred,
                        IF HasError(message) THEN "reply" ELSE "resolve"))
      ELSE disconnect(emit(c, "error:unexpected"))

handleMessage(c0, message) ==
  LET c == [c0 EXCEPT !.handled = Append(@, message)]
      from == FromOf(message)
  IN  IF from = NoFrom THEN emit(c, "rdp-error")
      ELSE IF from \in DOMAIN c.activeRequests
        THEN LET deferred == c.activeRequests[from]
                 c1 == [c EXCEPT !.activeRequests = MapDelete(@, from)]
             IN  flushPendingRequests(
                   Call(c1, deferred,
                        IF HasError(message) THEN "reply" ELSE "resolve"))
      ELSE emit(c, "error:unexpected")

\* readMessage that reports a fatal error and leaves the connection open.
readMessageLenient(c0) ==
  LET r == parseMessage(c0.incomingData)
      c == [c0 EXCEPT !.incomingData = r.remainingData]
  IN  IF r.error # NoError
        THEN [c |-> emit(c, "error:parse"), continue |-> ~r.fatal]
      ELSE IF ~(r.parsedMessage.kind # "none" /\ Truthy(r.parsedMessage))
        THEN [c |-> c, continue |-> FALSE]
      ELSE [c |-> handleMessage(c, r.parsedMessage), continue |-> TRUE]

\* readMessage that empties the buffer when no frame is complete.
readMessageDropping(c0) ==
  LET r == parseMessage(c0.incomingData)
      c == [c0 EXCEPT !.incomingData = r.remainingData]
  IN  IF r.error # NoError
        THEN [c |-> IF r.fatal THEN disconnect(emit(c, "error:parse"))
                    ELSE emit(c, "error:parse"),
              continue |-> ~r.fatal]
      ELSE IF ~(r.parsedMessage.kind # "none" /\ Truthy(r.parsedMessage))
        THEN [c |-> [c EXCEPT !.incomingData = <<>>], continue |-> FALSE]
      ELSE [c |-> handleMessage(c, r.parsedMessage), continue |-> TRUE]

\* readMessage: the client after the call, and the value it returns.
readMessage(c0) ==
  LET r == parseMessage(c0.incomingData)
      c == [c0 EXCEPT !.incomingData = r.remainingData]
  IN  IF r.error # NoError
        THEN [c |-> IF r.fatal THEN disconnect(emit(c, "error:parse"))
                    ELSE emit(c, "error:parse"),
              continue |-> ~r.fatal]
      ELSE IF ~(r.parsedMessage.kind # "none" /\ Truthy(r.parsedMessage))
        THEN [c |-> c, continue |-> FALSE]
      ELSE [c |-> handleMessage(c, r.parsedMessage), continue |-> TRUE]

\* while (this.readMessage());  An iteration that returns true and leaves
\* the client as it found it repeats forever: the loop hangs.
RECURSIVE readLoop(_)
readLoop(c) ==
  LET r == readMessage(c)
  IN  IF ~r.continue THEN r.c
      ELSE IF r.c.incomingData = c.incomingData
        THEN [r.c EXCEPT !.hung = TRUE]
      ELSE readLoop(r.c)

onData(c, data) ==
  readLoop([c EXCEPT !.incomingData = @ \o data])

(***************************************************************************)
(* Operations of the client (one action per public method).                *)
(***************************************************************************)
NoTo == "undefined"

RequestProps ==
  {[string |-> TRUE, to |-> NoTo, circular |-> FALSE]} \cup
  {[string |-> FALSE, to |-> t, circular |-> b] :
     t \in Actors \cup {NoTo}, b \in BOOLEAN}

NewSocket ==
  [state |-> "connecting", listeners |-> TRUE, promise |-> "pending"]

\* connect(port): the promise executor.  A throw of expectReply is caught
\* and rejects the promise; the socket and its listeners stay.
\* connect that does not register its promise for the reply of root.
connectUnheld(c0) ==
  [c0 EXCEPT !.sockets = Append(@, NewSocket),
             !.connection = Len(c0.sockets) + 1]

connect(c0) ==
  LET s == Len(c0.sockets) + 1
      c == [c0 EXCEPT !.sockets = Append(@, NewSocket),
                      !.connection = s]
      e == expectReply(c, "root", HandshakeOf(s))
  IN  IF e.thrown = "none" THEN e
      ELSE [Call(e, HandshakeOf(s), "active") EXCEPT !.thrown = "none"]

Connect ==
  /\ ~hung
  /\ UNCHANGED notClient
  /\ Len(sockets) < MaxSockets
  /\ \E c \in {connect(Self)} : Becomes(c)

Disconnect ==
  /\ ~hung
  /\ UNCHANGED notClient
  /\ \E c \in {disconnect(Self)} : Becomes(c)

\* request that queues the request before it looks at the target.
requestUnchecked(c0, requestProps) ==
  LET to == IF requestProps.string THEN "root" ELSE requestProps.to
      id == Len(c0.requests) + 1
      item == [id |-> id, to |-> to, circular |-> requestProps.circular]
      c == [c0 EXCEPT !.requests = Append(@, [to |-> to, log |-> <<>>]),
                      !.pendingRequests = Append(@, item)]
  IN  IF to = NoTo THEN [c EXCEPT !.thrown = "noTarget"]
      ELSE LET f == flushPendingRequests(c)
           IN  IF f.thrown = "none" THEN f
               ELSE [Call(f, id, f.thrown) EXCEPT !.thrown = "none"]

\* request(requestProps).  Without a target it throws before anything is
\* touched.  A throw of flushPendingRequests inside the promise executor
\* rejects the promise just created.
request(c0, requestProps) ==
  LET to == IF requestProps.string THEN "root" ELSE requestProps.to
      id == Len(c0.requests) + 1
      item == [id |-> id, to |-> to, circular |-> requestProps.circular]
      c == [c0 EXCEPT !.requests = Append(@, [to |-> to, log |-> <<>>]),
                      !.pendingRequests = Append(@, item)]
  IN  IF to = NoTo THEN [c0 EXCEPT !.thrown = "noTarget"]
      ELSE LET f == flushPendingRequests(c)
           IN  IF f.thrown = "none" THEN f
               ELSE [Call(f, id, f.thrown) EXCEPT !.thrown = "none"]

\* A request() that gets as far as its promise creates a deferred.
Targeted(requestProps) == requestProps.string \/ requestProps.to # NoTo

Request ==
  /\ ~hung
  /\ UNCHANGED notClient
  /\ \E requestProps \in RequestProps :
       /\ Targeted(requestProps) => Len(requests) < MaxRequests
       /\ \E c \in {request(Self, requestProps)} : Becomes(c)

(***************************************************************************)
(* Socket events.                                                          *)
(***************************************************************************)
\* 'connect': the callback given to net.createConnection resolves the
\* promise of connect().
SocketConnect ==
  /\ ~hung
  /\ UNCHANGED notClient
  /\ \E s \in DOMAIN sockets :
       /\ sockets[s].state = "connecting"
       /\ LET c == [Self EXCEPT !.sockets[s].state = "open"]
          IN  Becomes(IF sockets[s].listeners
                        THEN Call(c, HandshakeOf(s), "connected") ELSE c)

\* What the target may put on the stream: the frame of every message, a
\* frame whose payload is not JSON, and a length prefix that is no number.
DigitChar(d) == CHOOSE ch \in Digits : DigitVal[ch] = d

RECURSIVE ToDecimal(_)
ToDecimal(n) ==
  IF n < 10 THEN <<DigitChar(n)>>
  ELSE ToDecimal(n \div 10) \o <<DigitChar(n % 10)>>

Frame(payload) == ToDecimal(Len(payload)) \o <<":">> \o payload

GoodFrames == {Frame(Stringify(m)) : m \in Messages}

\* A complete frame whose payload is not JSON, and a length prefix that
\* Number.parseInt makes NaN of.
Garbled == Frame(<<"x">>)
Unparsable == <<"x", ":">>
BadFrames == {Garbled, Unparsable}
ServerFrames == GoodFrames \cup BadFrames

\* What one 'data' event may carry: one frame or two.
Fills == ServerFrames \cup {f \o g : f, g \in ServerFrames}

\* 'data' -> onData
SocketData ==
  /\ ~hung
  /\ UNCHANGED notClient
  /\ \E s \in DOMAIN sockets, data \in Fills :
       /\ sockets[s].state = "open"
       /\ sockets[s].listeners
       /\ Len(incomingData) + Len(data) <= MaxBuffer
       /\ \E c \in {onData(Self, data)} : Becomes(c)

\* 'error' -> the reject of the connect() promise; the socket is destroyed.
SocketError ==
  /\ ~hung
  /\ UNCHANGED notClient
  /\ \E s \in DOMAIN sockets :
       /\ sockets[s].state \in {"connecting", "open"}
       /\ LET c == [Self EXCEPT !.sockets[s].state = "closed"]
          IN  Becomes(IF sockets[s].listeners
                        THEN Call(c, HandshakeOf(s), "socket") ELSE c)

\* 'end' -> onEnd
SocketEnd ==
  /\ ~hung
  /\ UNCHANGED notClient
  /\ \E s \in DOMAIN sockets :
       /\ sockets[s].state = "open"
       /\ LET c == [Self EXCEPT !.sockets[s].state = "closed"]
          IN  Becomes(IF sockets[s].listeners THEN emit(c, "end") ELSE c)

\* 'timeout' -> onTimeout
SocketTimeout ==
  /\ ~hung
  /\ UNCHANGED notClient
  /\ \E s \in DOMAIN sockets :
       /\ sockets[s].state = "open"
       /\ sockets[s].listeners
       /\ Becomes(emit(Self, "timeout"))

(***************************************************************************)
(* The transport hands the next bytes of the well-formed stream to onData. *)
(***************************************************************************)
RECURSIVE Concat(_)
Concat(seqs) == IF seqs = <<>> THEN <<>> ELSE Head(seqs) \o Concat(Tail(seqs))

FramesOf(messages) ==
  Concat([i \in DOMAIN messages |-> Frame(Stringify(messages[i]))])

Fill ==
  /\ ~hung
  /\ connection # 0
  /\ sockets[connection].state = "open"
  /\ sockets[connection].listeners
  /\ \E n \in 1..Min(MaxFill, Len(stream)) :
       \E c \in {onData(Self, SubSeq(stream, 1, n))} :
         /\ Becomes(c)
         /\ stream' = SubSeq(stream, n + 1, Len(stream))
         /\ delivered' = delivered \o c.handled
         /\ reported' = (reported \/ "error:parse" \in c.emitted)
         /\ split' = (split \/ c.incomingData # <<>>)
         /\ multi' = (multi \/ Len(c.handled) > 1)
  /\ UNCHANGED <<sent, parseVars, serveVars, testVars, runVars, prefsVars,
                 buildVars>>

(***************************************************************************)
(* The transport hands an arbitrary buffer to onData in one fill; the      *)
(* buffer of the client is empty, so the first call of parseMessage is on  *)
(* these bytes.                                                            *)
(***************************************************************************)
Unparsed ==
  [remainingData |-> <<>>, parsedMessage |-> NoMessage, error |-> "unparsed",
   fatal |-> FALSE]

Receive ==
  /\ ~hung
  /\ result = Unparsed
  /\ incomingData = <<>>
  /\ connection # 0
  /\ sockets[connection].state = "open"
  /\ sockets[connection].listeners
  /\ \E c \in {onData(Self, input)} : Becomes(c)
  /\ result' = parseMessage(input)
  /\ UNCHANGED <<input, frameVars, serveVars, testVars, runVars,
                 prefsVars, buildVars>>

(***************************************************************************)
(* Serve: run(), the debounced watcher callback, onChange() and reload().  *)
(***************************************************************************)
Null == 0 - 1
NoArgs == <<>>
DebounceMs == 500

\* Paths by their segments; the last one is the extension.
Paths == {<<"index", ".ts">>, <<"view", ".tsx">>, <<"style", ".css">>}
endsWith(path, suffix) == path[Len(path)] = suffix

\* The awaits of Serve.run, in order.
RunPhasesRunFirst ==
  <<"serve:init", "runner.run", "builder.run", "serve:prebuild">>

RunPhases == <<"serve:init", "builder.run", "serve:prebuild", "runner.run">>

\* After them: watch() has been started, run() has returned without
\* watching (test mode), run() has rejected.
Watching == Len(RunPhases) + 1
Done == Len(RunPhases) + 2
Failed == Len(RunPhases) + 3

\* await of run(): it settles, or it rejects and run() rejects with it.
RunStep ==
  /\ alive
  /\ phase \in DOMAIN RunPhases
  /\ \E ok \in BOOLEAN :
       /\ phase' = IF ~ok THEN Failed
                   ELSE IF phase = Len(RunPhases) /\ isTest THEN Done
                   ELSE phase + 1
       /\ built' = (built \/ (ok /\ RunPhases[phase] = "builder.run"))
       /\ ran' = (ran \/ (ok /\ RunPhases[phase] = "runner.run"))
  /\ UNCHANGED <<isTest, alive, timers, timeoutId, pendingArgs, cycles,
                 changes, bursts, started, failures, logged, sinceChange>>
  /\ UNCHANGED <<assetChange, fullBuild, shutdown, exited, changed,
                 target>>
  /\ UNCHANGED notServe

\* debounce(func, 500): schedule() clears the timeout it holds and arms a
\* new one of DebounceMs.
scheduleKeeping(armed, held) == armed \cup {DebounceMs}

schedule(armed, held) == (armed \ {held}) \cup {DebounceMs}

\* The build step onChange chooses for a path.
BuildStepFull(path) == "builder.run"

BuildStep(path) ==
  IF endsWith(path, ".ts") \/ endsWith(path, ".tsx")
    THEN "builder.esbuild" ELSE "builder.run"

\* The awaits of onChange (reload() inlined), in order.
CycleAwaits(path) ==
  <<"serve:onChanged", BuildStep(path), "runner.reload", "serve:onReloaded">>

\* The rejection of onChange(path) arriving at the debounced callback:
\* .catch logs it and the callback's promise fulfils.
onChangeUnhandled(state) == [alive |-> FALSE, logged |-> state.logged]

onChangeRejected(state) ==
  [alive |-> state.alive, logged |-> state.logged + 1]

\* onChangeDebounced(path): the debounced function holds the arguments of
\* its latest call, in place of those it held.
onChangeDebouncedKeeping(pending, path) ==
  IF pending = NoArgs THEN path ELSE pending

onChangeDebounced(pending, path) == path

\* watcher.on("change"): onChangeDebounced(path).  Timeouts that are due
\* run before the event is handled.
Change ==
  /\ alive
  /\ phase = Watching
  /\ changes < MaxChanges
  /\ 0 \notin timers
  /\ \E path \in Paths :
       /\ pendingArgs' = onChangeDebounced(pendingArgs, path)
       /\ changed' = Append(changed, path)
       /\ timers' = schedule(timers, timeoutId)
       /\ timeoutId' = DebounceMs
  /\ changes' = changes + 1
  /\ bursts' = IF sinceChange \in {Null, DebounceMs} THEN bursts + 1 ELSE bursts
  /\ sinceChange' = 0
  /\ assetChange' = IF BuildStep(pendingArgs') = "builder.run"
                      THEN changes + 1 ELSE assetChange
  /\ UNCHANGED <<isTest, phase, alive, cycles, started, failures, logged>>
  /\ UNCHANGED <<built, ran, fullBuild, shutdown, exited, target>>
  /\ UNCHANGED notServe

\* Time passes, at most up to the next expiry.
Least(S) == CHOOSE x \in S : \A y \in S : x <= y

Tick ==
  /\ alive
  /\ phase = Watching
  /\ 0 \notin timers
  /\ sinceChange \notin {Null, DebounceMs}
  /\ LET d == IF timers = {} THEN TickMs ELSE Min(TickMs, Least(timers))
     IN  /\ timers' = {t - d : t \in timers}
         /\ timeoutId' = IF timeoutId = Null THEN Null ELSE timeoutId - d
         /\ sinceChange' = Min(sinceChange + d, DebounceMs)
  /\ UNCHANGED <<isTest, phase, alive, pendingArgs, cycles, changes, bursts,
                 started, failures, logged>>
  /\ UNCHANGED <<built, ran, assetChange, fullBuild, shutdown, exited,
                 changed, target>>
  /\ UNCHANGED notServe

\* A timeout of debounce expires: timeoutId = null, then invoke() calls
\* func with the pending arguments, if any, and the arguments are dropped.
\* func runs onChange(path) up to its first await.
Fire ==
  /\ alive
  /\ 0 \in timers
  /\ timers' = timers \ {0}
  /\ timeoutId' = Null
  /\ pendingArgs' = NoArgs
  /\ IF pendingArgs # NoArgs
       THEN /\ cycles' = Append(cycles, [path |-> pendingArgs, at |-> 1,
                                         since |-> failures,
                                         seen |-> changes,
                                         rebuilt |-> FALSE])
            /\ started' = started + 1
       ELSE UNCHANGED <<cycles, started>>
  /\ UNCHANGED <<isTest, phase, alive, changes, bursts, failures, logged,
                 sinceChange>>
  /\ UNCHANGED <<built, ran, assetChange, fullBuild, shutdown, exited,
                 changed, target>>
  /\ UNCHANGED notServe

Remove(seq, i) == SubSeq(seq, 1, i - 1) \o SubSeq(seq, i + 1, Len(seq))

\* onChange when the await it is at settles: on a rejection it rejects at
\* once, after its last await it returns, else it goes on to the next one.
\* The value is the cycle that goes on, if any.
onChangeGoingOn(cycle, ok) ==
  IF cycle.at = Len(CycleAwaits(cycle.path)) THEN <<>>
  ELSE <<[cycle EXCEPT
            !.at = @ + 1,
            !.rebuilt = @ \/ (ok /\ CycleAwaits(cycle.path)[cycle.at] =
                                       BuildStep(cycle.path))]>>

onChange(cycle, ok) ==
  IF ~ok THEN <<>>
  ELSE IF cycle.at = Len(CycleAwaits(cycle.path)) THEN <<>>
  ELSE <<[cycle EXCEPT
            !.at = @ + 1,
            !.rebuilt = @ \/ CycleAwaits(cycle.path)[cycle.at] =
                               BuildStep(cycle.path)]>>

\* An await of a cycle settles: onChange goes on to its next await or
\* returns; on a rejection onChange rejects.
CycleStep ==
  /\ alive
  /\ \E i \in DOMAIN cycles, ok \in BOOLEAN :
       LET cycle == cycles[i]
           caught == onChangeRejected([alive |-> alive, logged |-> logged])
           settled == CycleAwaits(cycle.path)[cycle.at]
       IN  /\ cycles' = SubSeq(cycles, 1, i - 1) \o onChange(cycle, ok)
                          \o SubSeq(cycles, i + 1, Len(cycles))
           /\ IF ok
                THEN /\ fullBuild' = IF settled = "builder.run"
                                       THEN Max(fullBuild, cycle.seen)
                                       ELSE fullBuild
                     /\ target' = IF settled = "runner.reload"
                                    THEN cycle.seen ELSE target
                     /\ UNCHANGED <<alive, failures, logged>>
                ELSE /\ failures' = failures + 1
                     /\ alive' = caught.alive
                     /\ logged' = caught.logged
                     /\ UNCHANGED <<fullBuild, target>>
  /\ UNCHANGED <<isTest, phase, timers, timeoutId, pendingArgs, changes,
                 bursts, started, sinceChange>>
  /\ UNCHANGED <<built, ran, assetChange, shutdown, exited, changed>>
  /\ UNCHANGED notServe

\* killZotero(): when a Zotero process is running, the kill command of the
\* platform is run and its failure is caught and logged.
Platforms == {"command", "windows", "macos", "linux", "other"}

killZoteroThrowing(running, platform, fails) ==
  IF ~running THEN "not running"
  ELSE IF platform = "other" THEN "no command"
  ELSE IF fails THEN "thrown"
  ELSE "killed"

killZotero(running, platform, fails) ==
  IF ~running THEN "not running"
  ELSE IF platform = "other" THEN "no command"
  ELSE IF fails THEN "kill failed"
  ELSE "killed"

\* Serve.exit: runner.exit() is called and not awaited, then killZotero(),
\* the serve:exit hook (not awaited) and process.exit().  An exception of
\* killZotero would leave exit() before process.exit().
Call2(name, outcome) == <<name, outcome>>

serveExit(answer, running, platform, fails) ==
  LET kill == killZotero(running, platform, fails)
      asked == <<Call2("runner.exit", answer)>>
  IN  IF kill = "thrown"
        THEN [shutdown |-> Append(asked, Call2("killZotero", kill)),
              exited |-> Null]
        ELSE [shutdown |-> asked \o <<Call2("killZotero", kill),
                                      Call2("serve:exit", "called"),
                                      Call2("process.exit", "0")>>,
              exited |-> 0]

\* process.on("SIGINT", this.exit), registered first in Serve.run.  The
\* target answers runner.exit() by exiting or not at all.
SigInt ==
  /\ alive
  /\ shutdown = <<>>
  /\ \E answer \in {"exits", "hung"}, running \in BOOLEAN,
        platform \in Platforms, fails \in BOOLEAN :
       /\ answer = "hung" => running
       /\ \E e \in {serveExit(answer, running, platform, fails)} :
            /\ shutdown' = e.shutdown
            /\ exited' = e.exited
            /\ alive' = (e.exited = Null)
  /\ UNCHANGED <<isTest, phase, timers, timeoutId, pendingArgs, cycles,
                 changes, bursts, started, failures, logged, sinceChange,
                 built, ran, assetChange, fullBuild, changed, target>>
  /\ UNCHANGED notServe

(***************************************************************************)
(* Test: the Reporter in the test page, the POST /update handler,          *)
(* onHttpDataUpdated() and exit().                                         *)
(***************************************************************************)
EventTypes ==
  {"start", "suite", "suite end", "pending", "pass", "fail", "end", "debug"}

\* Test.exit(code): closes the listener, asks the runner to exit, and ends
\* the process: process.exit(1) for code 1, process.exit() (code 0) for
\* "SIGINT" and for no code.
ExitArgs == {"1", "SIGINT", "undefined"}

TestSelf == [closes |-> closes, exitCode |-> exitCode]

exit(t, code) ==
  [t EXCEPT !.closes = @ + 1, !.exitCode = IF code = "1" THEN 1 ELSE 0]

\* onHttpDataUpdated that leaves the end of the run to the `end` event.
onHttpDataUpdatedWaiting(t, type) ==
  IF type = "end"
    THEN LET closed == [t EXCEPT !.closes = @ + 1]
         IN  IF exitOnFinish THEN exit(closed, "undefined") ELSE closed
  ELSE t

onHttpDataUpdated(t, type) ==
  IF type = "fail"
    THEN IF abortOnFail /\ exitOnFinish THEN exit(t, "1") ELSE t
  ELSE IF type = "end"
    THEN LET closed == [t EXCEPT !.closes = @ + 1]
         IN  IF exitOnFinish THEN exit(closed, "undefined") ELSE closed
  ELSE t

\* The body of a request, as the tokens of its text.  JSON.stringify of an
\* event {type, data?}, where data is absent, an object with `str`, or an
\* object without it; JSON.parse of a body: such an object, null, or a
\* SyntaxError for any other text.
DataShapes == {"absent", "str", "nostr"}

DataTokens(data) ==
  IF data = "absent" THEN <<>>
  ELSE IF data = "str" THEN <<",", "data", ":", "{", "str", "}">>
  ELSE <<",", "data", ":", "{", "}">>

EventBody(type, data) ==
  <<"{", "type", ":", type>> \o DataTokens(data) \o <<"}">>

\* The body the Reporter sends for an event: `start` has no data, every
\* other event has data with str.
Sent(type) == EventBody(type, IF type = "start" THEN "absent" ELSE "str")

BodySyntaxError == [kind |-> "SyntaxError", type |-> "none", data |-> "absent"]
JsonNull == [kind |-> "null", type |-> "none", data |-> "absent"]

Punctuation == {"{", "}", ":", ","}

ParseBody(body) ==
  IF body = <<"null">> THEN JsonNull
  ELSE IF /\ Len(body) >= 5
          /\ SubSeq(body, 1, 3) = <<"{", "type", ":">>
          /\ body[4] \notin Punctuation
          /\ body[Len(body)] = "}"
          /\ \E data \in DataShapes :
               SubSeq(body, 5, Len(body) - 1) = DataTokens(data)
    THEN [kind |-> "object", type |-> body[4],
          data |-> CHOOSE data \in DataShapes :
                     SubSeq(body, 5, Len(body) - 1) = DataTokens(data)]
  ELSE BodySyntaxError

\* body.data?.str.replaceAll(...) of onHttpDataUpdated throws a TypeError
\* for null and for data without str, before anything else is done.
Throws(jsonData) == jsonData.kind = "null" \/ jsonData.data = "nostr"

NoResponse == [status |-> 0, contentType |-> "none", body |-> "none"]

Respond(status, contentType, body) ==
  [status |-> status, contentType |-> contentType, body |-> body]

Ack == Respond(200, "application/json", "Results received successfully")
InvalidJson == Respond(400, "application/json", "Invalid JSON")
NotFound == Respond(404, "application/json", "Not Found")
Running == Respond(200, "text/plain", "Zotero Plugin Test Server is running")

\* req.on("end") of POST /update: JSON.parse(body), onHttpDataUpdated, the
\* acknowledgement; the catch answers 400 both to the SyntaxError of
\* JSON.parse and to the TypeError of onHttpDataUpdated.  When
\* onHttpDataUpdated ends the process, nothing is answered.
updateTrusting(t, body) ==
  LET jsonData == ParseBody(body)
  IN  IF jsonData.kind = "SyntaxError" \/ Throws(jsonData)
        THEN [t |-> [t EXCEPT !.exitCode = 1], response |-> NoResponse]
        ELSE LET u == onHttpDataUpdated(t, jsonData.type)
             IN  [t |-> u,
                  response |-> IF u.exitCode # Null THEN NoResponse ELSE Ack]

update(t, body) ==
  LET jsonData == ParseBody(body)
  IN  IF jsonData.kind = "SyntaxError" \/ Throws(jsonData)
        THEN [t |-> t, response |-> InvalidJson]
        ELSE LET u == onHttpDataUpdated(t, jsonData.type)
             IN  [t |-> u,
                  response |-> IF u.exitCode # Null THEN NoResponse ELSE Ack]

\* The request listener of http.createServer.
requestListener(t, req) ==
  IF req.method = "GET" /\ req.url = "/"
    THEN [t |-> t, response |-> Running]
  ELSE IF req.method = "POST" /\ req.url = "/update"
    THEN update(t, req.body)
  ELSE [t |-> t, response |-> NotFound]

\* The types of the events a request passes to onHttpDataUpdated.
Received(req) ==
  IF /\ req.method = "POST" /\ req.url = "/update"
     /\ ParseBody(req.body).kind = "object"
     /\ ~Throws(ParseBody(req.body))
    THEN <<ParseBody(req.body).type>>
    ELSE <<>>

HttpRequest(method, url, body) ==
  [method |-> method, url |-> url, body |-> body]

Methods == {"GET", "POST", "PUT"}
Urls == {"/", "/update", "/other"}
Bodies ==
  {Sent(type) : type \in EventTypes}
    \cup {EventBody(type, "absent") : type \in {"fail", "end", "other"}}
    \cup {EventBody(type, "nostr") : type \in {"fail", "end"}}
    \cup {<<"null">>, <<>>, <<"{", "type">>}

HttpRequests ==
  {HttpRequest(method, url, <<>>) : method \in Methods, url \in Urls}
    \cup {HttpRequest("POST", "/update", body) : body \in Bodies}

Exchange(req, response) == [request |-> req, response |-> response]

\* The Reporter handles an event of the mocha runner: it counts a pass and
\* a fail, aborts the runner on a fail if abortOnFail, and sends the event.
\* After 'end', and after abort() anything but 'end', there is no event.
Report ==
  /\ exitCode = Null
  /\ ~ended
  /\ Len(outbox) + Len(posted) < MaxEvents
  /\ \E type \in EventTypes :
       /\ aborted => type = "end"
       /\ passed' = IF type = "pass" THEN passed + 1 ELSE passed
       /\ failed' = IF type = "fail" THEN failed + 1 ELSE failed
       /\ aborted' = (aborted \/ (type = "fail" /\ abortOnFail))
       /\ ended' = (type = "end")
       /\ outbox' = Append(outbox, type)
  /\ UNCHANGED <<abortOnFail, exitOnFinish, closes, exitCode, posted,
                 exchanges>>
  /\ UNCHANGED notTest

\* A POST /update of the Reporter arrives at the listener (the sends are
\* not awaited by the runner, so they arrive in any order) and its body is
\* passed to onHttpDataUpdated.
Deliver ==
  /\ exitCode = Null
  /\ closes = 0
  /\ \E i \in DOMAIN outbox :
       \E req \in {HttpRequest("POST", "/update", Sent(outbox[i]))} :
         /\ \E r \in {requestListener(TestSelf, req)} :
              /\ closes' = r.t.closes
              /\ exitCode' = r.t.exitCode
              /\ exchanges' = Append(exchanges, Exchange(req, r.response))
         /\ posted' = posted \o Received(req)
         /\ outbox' = Remove(outbox, i)
  /\ UNCHANGED <<abortOnFail, exitOnFinish, passed, failed, aborted, ended>>
  /\ UNCHANGED notTest

\* A request of any local client arrives at the listener.
Http ==
  /\ exitCode = Null
  /\ closes = 0
  /\ Len(exchanges) < MaxPosts
  /\ \E req \in HttpRequests :
       /\ \E r \in {requestListener(TestSelf, req)} :
            /\ closes' = r.t.closes
            /\ exitCode' = r.t.exitCode
            /\ exchanges' = Append(exchanges, Exchange(req, r.response))
       /\ posted' = posted \o Received(req)
  /\ UNCHANGED <<abortOnFail, exitOnFinish, passed, failed, aborted, ended,
                 outbox>>
  /\ UNCHANGED notTest

\* process.on("SIGINT", this.exit)
Interrupt ==
  /\ exitCode = Null
  /\ \E t \in {exit(TestSelf, "SIGINT")} :
       /\ closes' = t.closes
       /\ exitCode' = t.exitCode
  /\ UNCHANGED <<abortOnFail, exitOnFinish, posted, passed, failed, aborted,
                 ended, outbox, exchanges>>
  /\ UNCHANGED notTest

(***************************************************************************)
(* Test.run: the steps up to the launch of the target, and the other       *)
(* processes of the machine binding and releasing ports.                   *)
(***************************************************************************)
Ports == 1..MaxPorts

\* The steps of Test.run, in order: its awaits, with startHttpServer split
\* at its await of findFreeTcpPort into the await and the continuation
\* that assigns communicator.port and calls server.listen(PORT).
TestStepsInjectingFirst ==
  <<"emptyDir", "test:init", "builder.run", "test:prebuild",
    "createTestPlugin", "copyTestLibraries", "test:copyAssets",
    "findFreeTcpPort", "server.listen", "test:listen",
    "bundleTests", "test:bundleTests", "startZotero", "test:run">>

TestSteps ==
  <<"emptyDir", "test:init", "builder.run", "test:prebuild",
    "findFreeTcpPort", "server.listen", "test:listen",
    "createTestPlugin", "copyTestLibraries", "test:copyAssets",
    "bundleTests", "test:bundleTests", "startZotero", "test:run">>

\* After them: run() has returned, run() has rejected, the process was
\* ended by the unhandled 'error' event of the server.
Returned == Len(TestSteps) + 1
Rejected == Len(TestSteps) + 2
Crashed == Len(TestSteps) + 3

\* findFreeTcpPort(): resolves with a port that no process is bound to
\* when it looks, and holds no port when it has resolved.
findFreeTcpPort(held) == Ports \ held

\* server.listen(PORT) binds the socket at once; when the port is in use
\* the server emits 'error' (EADDRINUSE), which has no listener.
listen(held, PORT) == IF PORT \in held THEN Null ELSE PORT

\* A step of Test.run settles: run() goes on to the next step or returns;
\* on a rejection run() rejects.  A file that a failing step generates may
\* have been written.
TestStep ==
  /\ step \in DOMAIN TestSteps
  /\ \E ok \in BOOLEAN, written \in BOOLEAN :
       LET name == TestSteps[step]
           settled == IF ok THEN step + 1 ELSE Rejected
           generated == IF ok \/ written THEN <<port>> ELSE <<>>
       IN  /\ IF name = "findFreeTcpPort"
                THEN IF ok /\ findFreeTcpPort(taken) # {}
                       THEN /\ free' \in findFreeTcpPort(taken)
                            /\ step' = step + 1
                       ELSE /\ free' = free
                            /\ step' = Rejected
                ELSE /\ free' = free
                     /\ step' = IF name # "server.listen" THEN settled
                                ELSE IF listen(taken, free) = Null THEN Crashed
                                ELSE step + 1
           /\ port' = IF name = "server.listen" THEN free ELSE port
           /\ bound' = IF name = "server.listen" THEN listen(taken, free)
                       ELSE bound
           /\ bootstrap' = IF name = "createTestPlugin" THEN generated
                           ELSE bootstrap
           /\ page' = IF name = "bundleTests" THEN generated ELSE page
  /\ launched' = (launched \/ (/\ step' \in DOMAIN TestSteps
                                /\ TestSteps[step'] = "startZotero"))
  /\ UNCHANGED taken
  /\ UNCHANGED notRun

\* Another process binds a port that no process is bound to.
Grab ==
  /\ \E p \in Ports \ (taken \cup {bound}) : taken' = taken \cup {p}
  /\ UNCHANGED <<step, free, port, bound, bootstrap, page, launched>>
  /\ UNCHANGED notRun

\* Another process closes its socket.
Release ==
  /\ \E p \in taken : taken' = taken \ {p}
  /\ UNCHANGED <<step, free, port, bound, bootstrap, page, launched>>
  /\ UNCHANGED notRun

(***************************************************************************)
(* PrefsManager: setPref, getPref, getPrefs, clearPrefs and the prefixed    *)
(* views.  A key is the sequence of its segments ("prefix.key" is          *)
(* <<"prefix", "key">>); a value is a string, a number or a boolean,       *)
(* written with its type; null and undefined are values of their own.      *)
(***************************************************************************)
PrefKeys == {<<"key">>, <<"prefix", "key">>, <<"other", "key">>}
Prefixes == {"prefix", "other"}

PrefValues == {<<"string", "hello">>, <<"string", "value">>,
               <<"number", "42">>, <<"boolean", "true">>}

PrefNull == <<"null", "null">>
Undefined == <<"undefined", "undefined">>

\* setPref that stores null as the value of the key.
setPrefStoringNull(stored, key, value) == MapSet(stored, key, value)

\* setPref(key, value): null (or undefined) removes the key.
setPref(stored, key, value) ==
  IF value \in {PrefNull, Undefined}
    THEN MapDelete(stored, key)
    ELSE MapSet(stored, key, value)

getPref(stored, key) ==
  IF key \in DOMAIN stored THEN stored[key] ELSE Undefined

getPrefs(stored) == stored

clearPrefs(stored) == EmptyMap

\* The order of the properties of an object: a new key comes last, a key
\* that is assigned again keeps its place, a deleted key leaves.
Properties(order, stored) == SelectSeq(order, LAMBDA k : k \in DOMAIN stored)

Ordered(order, stored) ==
  Properties(order, stored)
    \o IF \E k \in DOMAIN stored : k \notin {order[i] : i \in DOMAIN order}
         THEN <<CHOOSE k \in DOMAIN stored :
                  k \notin {order[i] : i \in DOMAIN order}>>
         ELSE <<>>

\* An object as its map and the order of its keys.
EmptyObject == [map |-> EmptyMap, order |-> <<>>]

Assign(object, key, value) ==
  [map |-> MapSet(object.map, key, value),
   order |-> Ordered(object.order, MapSet(object.map, key, value))]

\* A key carries the prefix when it starts with `prefix.`.
Carries(key, prefix) == Len(key) > 1 /\ key[1] = prefix

WithPrefixAlways(key, prefix) == <<prefix>> \o key

WithPrefix(key, prefix) ==
  IF Carries(key, prefix) THEN key ELSE <<prefix>> \o key

WithoutPrefix(key, prefix) ==
  IF Carries(key, prefix) THEN Tail(key) ELSE key

\* getPrefsWithPrefix(prefix), getPrefsWithoutPrefix(prefix): a new object
\* with every preference, in order, assigned under its rewritten key.
RECURSIVE prefixed(_, _, _, _)
prefixed(object, order, prefix, acc) ==
  IF order = <<>> THEN acc
  ELSE prefixed(object, Tail(order), prefix,
                Assign(acc, WithPrefix(Head(order), prefix),
                       object.map[Head(order)]))

RECURSIVE unprefixed(_, _, _, _)
unprefixed(object, order, prefix, acc) ==
  IF order = <<>> THEN acc
  ELSE unprefixed(object, Tail(order), prefix,
                  Assign(acc, WithoutPrefix(Head(order), prefix),
                         object.map[Head(order)]))

getPrefsWithPrefix(object, prefix) ==
  prefixed(object, object.order, prefix, EmptyObject)

getPrefsWithoutPrefix(object, prefix) ==
  unprefixed(object, object.order, prefix, EmptyObject)

PrefsSelf == [map |-> prefs, order |-> inserted]

SetPref ==
  /\ \E key \in PrefKeys, value \in PrefValues \cup {PrefNull} :
       /\ prefs' = setPref(prefs, key, value)
       /\ inserted' = Ordered(inserted, setPref(prefs, key, value))
       /\ lastSet' = <<key, value, getPref(prefs, key)>>
  /\ UNCHANGED notPrefs

ClearPrefs ==
  /\ prefs' = clearPrefs(prefs)
  /\ inserted' = <<>>
  /\ lastSet' = <<>>
  /\ UNCHANGED notPrefs

(***************************************************************************)
(* Build: the awaits of run(), the files its steps read and write, and     *)
(* the write of the manifest that makeManifest starts.                     *)
(***************************************************************************)
\* The awaits of Build.run, in order; pack and makeUpdateJson are reached in
\* production mode only.
BuildAwaits(prod) ==
  <<"build:init", "emptyDir", "build:mkdir", "makeAssets",
    "build:copyAssets", "makeManifest", "build:makeManifest",
    "prepareLocaleFiles", "build:fluent", "preparePrefs", "esbuild",
    "build:bundle">>
  \o (IF prod THEN <<"pack", "build:pack", "makeUpdateJson",
                     "build:makeUpdateJSON">>
      ELSE <<>>)
  \o <<"build:done">>

\* After them: run() has resolved, run() has rejected.
BuildResolved == 100
BuildRejected == 101

\* The files: the assets under dist/addon, the manifest among them, the
\* locale files once prefixed, the bundled scripts, the .xpi and the
\* update manifests.
Files == {"addon", "manifest.json", "locale", "bundle", "xpi", "update.json"}

\* What a step reads, and what it writes and awaits before it returns.
Reads(name, makes) ==
  CASE name = "makeManifest" -> IF makes THEN {"manifest.json"} ELSE {}
    [] name = "prepareLocaleFiles" -> {"addon"}
    [] name = "preparePrefs" -> {"addon"}
    [] name = "pack" -> {"addon", "manifest.json", "locale", "bundle"}
    [] name = "makeUpdateJson" -> {"manifest.json", "xpi"}
    [] OTHER -> {}

Awaited(name) ==
  CASE name = "makeAssets" -> {"addon", "manifest.json"}
    [] name = "prepareLocaleFiles" -> {"locale"}
    [] name = "esbuild" -> {"bundle"}
    [] name = "pack" -> {"xpi"}
    [] name = "makeUpdateJson" -> {"update.json"}
    [] OTHER -> {}

\* What a step starts to write and does not await: makeManifest calls
\* outputJSON for the manifest and returns.
NotAwaited(name, makes) ==
  IF name = "makeManifest" /\ makes THEN {"manifest.json"} ELSE {}

Writes(name, makes) == Awaited(name) \cup NotAwaited(name, makes)

\* The step that wrote the file last before await k of run().
LastWriter(awaits, k, file, makes) ==
  LET writers == {j \in 1..(k - 1) : file \in Writes(awaits[j], makes)}
  IN  IF writers = {} THEN "none"
      ELSE awaits[CHOOSE j \in writers : \A i \in writers : i <= j]

ReadsOf(awaits, k, makes, on) ==
  LET files == Reads(awaits[k], makes)
      order == CHOOSE seq \in [1..Cardinality(files) -> files] :
                 \A f \in files : \E i \in DOMAIN seq : seq[i] = f
  IN  [i \in DOMAIN order |->
         [by |-> awaits[k], file |-> order[i], saw |-> on[order[i]],
          expected |-> LastWriter(awaits, k, order[i], makes)]]

\* An await of run() settles.  A step that succeeds has read its files and
\* has its awaited writes on disk; its other writes are under way.  On a
\* rejection run() rejects.
BuildAwait ==
  /\ buildAt \in DOMAIN BuildAwaits(production)
  /\ LET awaits == BuildAwaits(production)
         name == awaits[buildAt]
     IN  \E ok \in BOOLEAN :
           IF ok
             THEN /\ buildAt' = IF buildAt = Len(awaits) THEN BuildResolved
                                ELSE buildAt + 1
                  /\ readLog' = readLog \o ReadsOf(awaits, buildAt, enable, disk)
                  /\ disk' = [file \in Files |->
                                IF file \in Awaited(name) THEN name
                                ELSE IF name = "emptyDir" THEN "none"
                                ELSE disk[file]]
                  /\ floating' = floating \cup
                       {[file |-> f, by |-> name] :
                          f \in NotAwaited(name, enable)}
             ELSE /\ buildAt' = BuildRejected
                  /\ UNCHANGED <<disk, floating, readLog>>
  /\ UNCHANGED <<production, enable>>
  /\ UNCHANGED notBuild

\* A write that was not awaited goes on: the file is opened and truncated,
\* then it is complete.
OutputJSON ==
  /\ \E w \in floating :
       IF disk[w.file] # "partial"
         THEN /\ disk' = [disk EXCEPT ![w.file] = "partial"]
              /\ UNCHANGED floating
         ELSE /\ disk' = [disk EXCEPT ![w.file] = w.by]
              /\ floating' = floating \ {w}
  /\ UNCHANGED <<production, enable, buildAt, readLog>>
  /\ UNCHANGED notBuild

(***************************************************************************)
(* Specifications.                                                         *)
(***************************************************************************)
ClientInit ==
  /\ incomingData = <<>>
  /\ pendingRequests = <<>>
  /\ activeRequests = EmptyMap
  /\ connection = 0
  /\ sockets = <<>>
  /\ requests = <<>>
  /\ wire = <<>>
  /\ emitted = {}
  /\ thrown = "none"
  /\ hung = FALSE

NoStream ==
  /\ sent = <<>>
  /\ stream = <<>>
  /\ delivered = <<>>
  /\ reported = FALSE
  /\ split = FALSE
  /\ multi = FALSE

NoParse ==
  /\ input = <<>>
  /\ result = Unparsed

NoServe ==
  /\ isTest = FALSE
  /\ phase = 1
  /\ alive = TRUE
  /\ timers = {}
  /\ timeoutId = Null
  /\ pendingArgs = NoArgs
  /\ cycles = <<>>
  /\ changes = 0
  /\ bursts = 0
  /\ started = 0
  /\ failures = 0
  /\ logged = 0
  /\ sinceChange = Null
  /\ built = FALSE
  /\ ran = FALSE
  /\ assetChange = 0
  /\ fullBuild = 0
  /\ shutdown = <<>>
  /\ exited = Null
  /\ changed = <<>>
  /\ target = 0

NoTest ==
  /\ abortOnFail = FALSE
  /\ exitOnFinish = FALSE
  /\ closes = 0
  /\ exitCode = Null
  /\ posted = <<>>
  /\ passed = 0
  /\ failed = 0
  /\ aborted = FALSE
  /\ ended = FALSE
  /\ outbox = <<>>
  /\ exchanges = <<>>

NoRun ==
  /\ step = 1
  /\ taken = {}
  /\ free = Null
  /\ port = Null
  /\ bound = Null
  /\ bootstrap = <<>>
  /\ page = <<>>
  /\ launched = FALSE

NoPrefs ==
  /\ prefs = EmptyMap
  /\ inserted = <<>>
  /\ lastSet = <<>>

NoBuild ==
  /\ production = FALSE
  /\ enable = FALSE
  /\ buildAt = 1
  /\ disk = [file \in Files |-> "none"]
  /\ floating = {}
  /\ readLog = <<>>

vars == <<clientVars, frameVars, parseVars, serveVars, testVars, runVars,
          prefsVars, buildVars>>

\* The client under every operation and socket event.
Init ==
  /\ ClientInit
  /\ NoStream
  /\ NoParse
  /\ NoServe
  /\ NoTest
  /\ NoRun
  /\ NoPrefs
  /\ NoBuild

Next ==
  \/ Connect
  \/ Disconnect
  \/ Request
  \/ SocketConnect
  \/ SocketData
  \/ SocketError
  \/ SocketEnd
  \/ SocketTimeout

Spec == Init /\ [][Next]_vars

\* The client reading a stream of well-formed frames cut into fills.
SentStreams == UNION {[1..n -> Messages] : n \in 1..MaxFrames}

InitFrames ==
  /\ NoRun
  /\ NoPrefs
  /\ NoBuild
  /\ ClientInit
  /\ NoParse
  /\ NoServe
  /\ NoTest
  /\ sent \in SentStreams
  /\ stream = FramesOf(sent)
  /\ delivered = <<>>
  /\ reported = FALSE
  /\ split = FALSE
  /\ multi = FALSE

NextFrames ==
  \/ Connect
  \/ SocketConnect
  \/ Fill

SpecFrames == InitFrames /\ [][NextFrames]_vars

\* The client receiving one fill of arbitrary bytes.
Bytes == {"1", "x", ":", "r", "-", " "}
Inputs == UNION {[1..n -> Bytes] : n \in 0..MaxInput}

InitParse ==
  /\ NoRun
  /\ NoPrefs
  /\ NoBuild
  /\ ClientInit
  /\ NoStream
  /\ NoServe
  /\ NoTest
  /\ input \in Inputs
  /\ result = Unparsed

NextParse ==
  \/ Connect
  \/ SocketConnect
  \/ Receive

SpecParse == InitParse /\ [][NextParse]_vars

\* Serve from run() on, with the watcher's events and the passing of time.
InitServe ==
  /\ NoRun
  /\ NoPrefs
  /\ NoBuild
  /\ ClientInit
  /\ NoStream
  /\ NoParse
  /\ NoTest
  /\ isTest \in BOOLEAN
  /\ phase = 1
  /\ alive = TRUE
  /\ timers = {}
  /\ timeoutId = Null
  /\ pendingArgs = NoArgs
  /\ cycles = <<>>
  /\ changes = 0
  /\ bursts = 0
  /\ started = 0
  /\ failures = 0
  /\ logged = 0
  /\ sinceChange = Null
  /\ built = FALSE
  /\ ran = FALSE
  /\ assetChange = 0
  /\ fullBuild = 0
  /\ shutdown = <<>>
  /\ exited = Null
  /\ changed = <<>>
  /\ target = 0

NextServe ==
  \/ RunStep
  \/ Change
  \/ Tick
  \/ Fire
  \/ CycleStep

SpecServe == InitServe /\ [][NextServe]_vars

\* Serve under an interrupt signal at any moment.
NextExit ==
  \/ RunStep
  \/ Change
  \/ Tick
  \/ Fire
  \/ CycleStep
  \/ SigInt

SpecExit == InitServe /\ [][NextExit]_vars

\* Test from the start of the test run in the target on, with the listener
\* listening.
InitTest ==
  /\ NoRun
  /\ NoPrefs
  /\ NoBuild
  /\ ClientInit
  /\ NoStream
  /\ NoParse
  /\ NoServe
  /\ abortOnFail \in BOOLEAN
  /\ exitOnFinish \in BOOLEAN
  /\ closes = 0
  /\ exitCode = Null
  /\ posted = <<>>
  /\ passed = 0
  /\ failed = 0
  /\ aborted = FALSE
  /\ ended = FALSE
  /\ outbox = <<>>
  /\ exchanges = <<>>

NextTest ==
  \/ Report
  \/ Deliver
  \/ Interrupt

SpecTest == InitTest /\ [][NextTest]_vars

\* Test.run among the other processes of the machine.
InitRun == Init

NextRun ==
  \/ TestStep
  \/ Grab
  \/ Release

SpecRun == InitRun /\ [][NextRun]_vars

\* A PrefsManager under any sequence of calls.
NextPrefs ==
  \/ SetPref
  \/ ClearPrefs

SpecPrefs == Init /\ [][NextPrefs]_vars

\* The listener under the requests of any local client.
NextHttp ==
  \/ Http
  \/ Interrupt

SpecHttp == InitTest /\ [][NextHttp]_vars

\* Build.run in either mode, with and without makeManifest.
InitBuild ==
  /\ ClientInit
  /\ NoStream
  /\ NoParse
  /\ NoServe
  /\ NoTest
  /\ NoRun
  /\ NoPrefs
  /\ production \in BOOLEAN
  /\ enable \in BOOLEAN
  /\ buildAt = 1
  /\ disk = [file \in Files |-> "none"]
  /\ floating = {}
  /\ readLog = <<>>

NextBuild ==
  \/ BuildAwait
  \/ OutputJSON

SpecBuild == InitBuild /\ [][NextBuild]_vars

(***************************************************************************)
(* Properties of MessagingClient.                                          *)
(***************************************************************************)
\* The requests that are queued or hold a slot of the active-request map.
Outstanding ==
  {pendingRequests[i].id : i \in DOMAIN pendingRequests} \cup
  ({activeRequests[a] : a \in DOMAIN activeRequests} \cap DOMAIN requests)

\* A request is in flight from its write until a reply to it is handled or
\* it is rejected because the connection is closed.
InFlight(id) ==
  LET log == requests[id].log
  IN  \E i \in DOMAIN log :
        /\ log[i] = "write"
        /\ \A j \in (i + 1)..Len(log) : log[j] \notin {"resolve", "reply", "closed"}

InFlightTo(actor) ==
  {id \in DOMAIN requests : requests[id].to = actor /\ InFlight(id)}

\* C1: every actor has at most one request in flight, and that request is
\* the one the active-request map holds for the actor.
OneInFlightPerActor ==
  \A actor \in Actors :
    /\ Cardinality(InFlightTo(actor)) <= 1
    /\ InFlightTo(actor) \subseteq
         (IF actor \in DOMAIN activeRequests
            THEN {activeRequests[actor]} ELSE {})

OneInFlightWitness ==
  \E actor \in Actors :
    /\ InFlightTo(actor) # {}
    /\ \E i \in DOMAIN pendingRequests : pendingRequests[i].to = actor

\* A reply to the request was handled after it was written.
Replied(id) ==
  LET log == requests[id].log
  IN  \E i, j \in DOMAIN log :
        i < j /\ log[i] = "write" /\ log[j] \in {"resolve", "reply"}

\* C2: the requests to one actor are written in the order they were issued,
\* and one is written only after the reply to the one before it was received.
WrittenInOrderAfterReply ==
  \A i, j \in DOMAIN wire :
    (i < j /\ requests[wire[i]].to = requests[wire[j]].to)
      => (wire[i] < wire[j] /\ Replied(wire[i]))

\* C3: disconnect() rejects every queued and every in-flight request once,
\* with the connection-closed error, empties the queue and the map, leaves
\* every other request alone and does not throw.
DisconnectRejectsAllOnce ==
  [][Disconnect =>
      /\ pendingRequests' = <<>>
      /\ activeRequests' = EmptyMap
      /\ thrown' = "none"
      /\ \A id \in DOMAIN requests :
           requests'[id].log =
             IF id \in Outstanding THEN Append(requests[id].log, "closed")
             ELSE requests[id].log]_vars

\* The bytes handed to onData so far, and the frames complete within them.
Fed == Len(FramesOf(sent)) - Len(stream)

RECURSIVE WholeFrames(_, _)
WholeFrames(messages, n) ==
  IF messages = <<>> THEN 0
  ELSE LET size == Len(Frame(Stringify(Head(messages))))
       IN  IF size <= n THEN 1 + WholeFrames(Tail(messages), n - size) ELSE 0

\* C4: however the stream of well-formed frames is cut into fills, the
\* messages delivered are exactly those whose frames have arrived in full,
\* in order, the bytes of a partial frame stay buffered, and no framing
\* error is reported.
FramesReassembled ==
  LET whole == WholeFrames(sent, Fed)
      used == Len(FramesOf(SubSeq(sent, 1, whole)))
  IN  /\ ~reported
      /\ ~hung
      /\ delivered = SubSeq(sent, 1, whole)
      /\ incomingData = SubSeq(FramesOf(sent), used + 1, Fed)

FramesReassembledWitness ==
  /\ Len(sent) = MaxFrames
  /\ stream = <<>>
  /\ split
  /\ multi
  /\ delivered = sent

\* C8: a socket error rejects every queued and every in-flight request with
\* the connection-closed error and leaves none behind.
SocketErrorRejectsAll ==
  [][SocketError =>
      /\ pendingRequests' = <<>>
      /\ activeRequests' = EmptyMap
      /\ \A id \in Outstanding :
           Outcome(requests'[id].log) = "closed"]_vars

\* C9: the promise of connect() is not resolved while the greeting of root
\* is outstanding, that is while the handshake holds root's slot.
ConnectResolvesOnGreeting ==
  \A s \in DOMAIN sockets :
    ~ /\ sockets[s].promise \in Resolutions
      /\ "root" \in DOMAIN activeRequests
      /\ activeRequests["root"] = HandshakeOf(s)

\* The connection has been closed by disconnect().
Disconnected == connection # 0 /\ ~sockets[connection].listeners

\* C10: a request() after disconnect() is rejected, is not written to the
\* socket and is not recorded as in flight.
RequestAfterDisconnectRejected ==
  [][(Disconnected /\ Len(requests') > Len(requests)) =>
      /\ Outcome(requests'[Len(requests')].log) \in Rejections
      /\ wire' = wire
      /\ activeRequests' = activeRequests]_vars

\* A socket of the client is delivering data and the buffer is empty.
Receiving ==
  /\ incomingData = <<>>
  /\ ~hung
  /\ \E s \in DOMAIN sockets : sockets[s].state = "open" /\ sockets[s].listeners

\* The requests that are queued or in flight in a client value, and the
\* connect() promises whose handshake holds a slot.
OutstandingOf(c) ==
  {c.pendingRequests[i].id : i \in DOMAIN c.pendingRequests} \cup
  ({c.activeRequests[a] : a \in DOMAIN c.activeRequests} \cap DOMAIN c.requests)

Greeting(c) ==
  {s \in DOMAIN c.sockets :
     \E a \in DOMAIN c.activeRequests : c.activeRequests[a] = HandshakeOf(s)}

\* C11: when onData is given a length prefix that cannot be parsed (after
\* a frame f that is well formed, before bytes g), the client emits the
\* parse error, closes its connection, rejects every request that is queued
\* or in flight at that point with the connection-closed error, leaves none
\* behind, writes nothing more, and reads nothing of the buffer from the
\* prefix on.
FatalFrameClosesAll ==
  Receiving =>
    \A f \in GoodFrames \cup {<<>>}, g \in ServerFrames \cup {<<>>} :
      LET before == onData(Self, f)
          after == onData(Self, f \o Unparsable \o g)
      IN  /\ "error:parse" \in after.emitted
          /\ after.sockets[connection].state = "closed"
          /\ ~after.sockets[connection].listeners
          /\ after.pendingRequests = <<>>
          /\ after.activeRequests = EmptyMap
          /\ \A id \in DOMAIN requests :
               after.requests[id].log =
                 IF id \in OutstandingOf(before)
                   THEN Append(before.requests[id].log, "closed")
                   ELSE before.requests[id].log
          /\ \A s \in Greeting(before) : after.sockets[s].promise # "pending"
          /\ after.wire = before.wire
          /\ after.incomingData = Unparsable \o g
          /\ ~after.hung

FatalFrameWitness ==
  /\ "error:parse" \in emitted
  /\ Len(incomingData) > Len(Unparsable)
  /\ SubSeq(incomingData, 1, Len(Unparsable)) = Unparsable
  /\ \E i, j \in DOMAIN requests :
       /\ requests[i].log = <<"write", "closed">>
       /\ requests[j].log = <<"closed">>

\* C12: a complete frame whose payload does not decode makes parseMessage
\* return a non-fatal error and the bytes after that frame; onData emits
\* the error and leaves the client otherwise as if the frame had not been
\* sent: the connection stays open, nothing is settled, queued or written
\* on account of it, and the well-formed frames before and after it are
\* passed to handleMessage and have their effect.
GarbledFrameSkipped ==
  Receiving =>
    \A f, g \in GoodFrames \cup {<<>>} :
      LET r == parseMessage(Garbled \o g)
          with == onData(Self, f \o Garbled \o g)
          without == onData(Self, f \o g)
      IN  /\ r.error = "payload"
          /\ ~r.fatal
          /\ r.parsedMessage = NoMessage
          /\ r.remainingData = g
          /\ with.emitted = without.emitted \cup {"error:parse"}
          /\ with.sockets = without.sockets
          /\ \A s \in DOMAIN sockets :
               /\ with.sockets[s].state = sockets[s].state
               /\ with.sockets[s].listeners = sockets[s].listeners
          /\ with.requests = without.requests
          /\ with.pendingRequests = without.pendingRequests
          /\ with.activeRequests = without.activeRequests
          /\ with.wire = without.wire
          /\ with.handled = without.handled
          /\ with.incomingData = <<>>
          /\ ~with.hung

GarbledFrameWitness ==
  /\ "error:parse" \in emitted
  /\ incomingData = <<>>
  /\ connection # 0
  /\ sockets[connection].state = "open"
  /\ sockets[connection].listeners
  /\ \E i, j \in DOMAIN requests :
       /\ requests[i].log = <<"write", "resolve">>
       /\ requests[j].log = <<"write">>

\* The bytes of the input before its first ':' (none without a ':').
Prefix == SubSeq(input, 1, IndexOf(input, ":"))

\* C13: a buffer whose bytes before the first ':' include a byte that is no
\* digit gets a fatal parse error from parseMessage, and no frame.
NonNumericPrefixFatal ==
  (/\ result # Unparsed
   /\ \E i \in DOMAIN Prefix : Prefix[i] \notin Digits)
    => (/\ result.fatal
        /\ result.error = "length"
        /\ result.parsedMessage = NoMessage)

\* The length parseMessage reads from the prefix, and the bytes after ':'.
ParsedLength == ParseInt(Prefix)
Following == Len(input) - (IndexOf(input, ":") + 1)

Incomplete ==
  \/ IndexOf(input, ":") = 0 - 1
  \/ /\ IndexOf(input, ":") >= 0
     /\ ~ParsedLength.nan
     /\ ParsedLength.value > Following

\* C14: for a buffer without ':', or whose parsed length exceeds the bytes
\* after the ':', parseMessage returns no frame, no error and the buffer as
\* remainder; the client keeps exactly these bytes in its buffer, reports
\* nothing and closes no socket.
IncompleteFrameKept ==
  (result # Unparsed /\ Incomplete) =>
    /\ result = [remainingData |-> input, parsedMessage |-> NoMessage,
                 error |-> NoError, fatal |-> FALSE]
    /\ incomingData = input
    /\ emitted = {}
    /\ \A s \in DOMAIN sockets :
         sockets[s].state # "closed" /\ sockets[s].listeners
    /\ ~hung

IncompleteFrameWitness ==
  /\ result # Unparsed
  /\ IndexOf(input, ":") >= 1
  /\ ~ParsedLength.nan
  /\ Following > 0
  /\ ParsedLength.value > Following
  /\ incomingData = input

\* C15: request() of an object without `to` throws at once, writes nothing
\* and leaves the queue, the active-request map and every promise as they
\* were; request() of a bare string makes a request to root, which is
\* written or queued as a request to root.
RequestNeedsTarget ==
  \A requestProps \in RequestProps :
    LET c == request(Self, requestProps)
        id == Len(requests) + 1
    IN  /\ ~Targeted(requestProps) =>
             /\ c.thrown = "noTarget"
             /\ c.wire = wire
             /\ c.pendingRequests = pendingRequests
             /\ c.activeRequests = activeRequests
             /\ c.requests = requests
             /\ c.sockets = sockets
        /\ requestProps.string =>
             /\ c.thrown = "none"
             /\ Len(c.requests) = id
             /\ c.requests[id].to = "root"
             /\ \/ \E i \in DOMAIN c.pendingRequests :
                     c.pendingRequests[i] =
                       [id |-> id, to |-> "root", circular |-> FALSE]
                \/ /\ c.wire = Append(wire, id)
                   /\ c.activeRequests["root"] = id

RequestNeedsTargetWitness ==
  /\ thrown = "noTarget"
  /\ pendingRequests # <<>>
  /\ wire # <<>>
  /\ \E id \in DOMAIN requests :
       requests[id].to = "root" /\ requests[id].log = <<"write">>

\* What an operation appended to the log of a request.
Added(c, id) == SubSeq(c.requests[id].log, Len(requests[id].log) + 1,
                       Len(c.requests[id].log))

\* C16: a message from an actor that has a request in flight settles that
\* request and no other: reject(message) when it carries an error,
\* resolve(message) otherwise; the actor's slot no longer holds the request;
\* no other request is resolved or rejected by a reply, and the outcome of
\* every request to another actor is what it was.
ReplySettlesItsRequest ==
  Receiving =>
    \A message \in Messages :
      FromOf(message) \in DOMAIN activeRequests =>
        LET c == onData(Self, Frame(Stringify(message)))
            deferred == activeRequests[FromOf(message)]
            how == IF HasError(message) THEN "reply" ELSE "resolve"
        IN  /\ c.handled = <<message>>
            /\ deferred > 0 =>
                 c.requests[deferred].log = Append(requests[deferred].log, how)
            /\ deferred < 0 =>
                 c.sockets[0 - deferred].promise =
                   IF sockets[0 - deferred].promise = "pending" THEN how
                   ELSE sockets[0 - deferred].promise
            /\ \/ FromOf(message) \notin DOMAIN c.activeRequests
               \/ c.activeRequests[FromOf(message)] # deferred
            /\ \A id \in DOMAIN requests \ {deferred} :
                 /\ \A i \in DOMAIN Added(c, id) :
                      Added(c, id)[i] \notin {"resolve", "reply"}
                 /\ requests[id].to # FromOf(message) =>
                      Outcome(c.requests[id].log) = Outcome(requests[id].log)
            /\ \A s \in DOMAIN sockets \ {0 - deferred} :
                 c.sockets[s] = sockets[s]
            /\ c.emitted = {}

ReplySettlesWitness ==
  /\ incomingData = <<>>
  /\ emitted = {}
  /\ \E i, j \in DOMAIN requests :
       /\ requests[i].log = <<"write", "reply">>
       /\ requests[j].to # requests[i].to
       /\ requests[j].log = <<"write">>
       /\ requests[j].to \in DOMAIN activeRequests
       /\ activeRequests[requests[j].to] = j
       /\ requests[i].to \notin DOMAIN activeRequests

\* C17: a message without `from` is emitted as an "rdp-error" event and is
\* no reply: onData leaves the client as if its frame had not been sent, but
\* for the event; nothing is settled, queued, written or freed by it.
NoFromIsProtocolError ==
  Receiving =>
    \A error \in BOOLEAN, f, g \in GoodFrames \cup {<<>>} :
      LET message == Message(NoFrom, error)
          with == onData(Self, f \o Frame(Stringify(message)) \o g)
          without == onData(Self, f \o g)
          alone == onData(Self, Frame(Stringify(message)))
      IN  /\ alone.handled = <<message>>
          /\ alone.emitted = {"rdp-error"}
          /\ alone.requests = requests
          /\ alone.pendingRequests = pendingRequests
          /\ alone.activeRequests = activeRequests
          /\ alone.wire = wire
          /\ alone.sockets = sockets
          /\ with.emitted = without.emitted \cup {"rdp-error"}
          /\ with.requests = without.requests
          /\ with.pendingRequests = without.pendingRequests
          /\ with.activeRequests = without.activeRequests
          /\ with.wire = without.wire
          /\ with.sockets = without.sockets
          /\ with.incomingData = <<>>
          /\ ~with.hung

NoFromWitness ==
  /\ emitted = {"rdp-error"}
  /\ pendingRequests # <<>>
  /\ "root" \in DOMAIN activeRequests
  /\ \E id \in DOMAIN requests : requests[id].log = <<"write">>
  /\ \A id \in DOMAIN requests : Outcome(requests[id].log) = "pending"

\* C18: a message from an actor that has no request in flight when it is
\* handled (after frame f of the fill) is emitted as an unexpected-message
\* error; onData leaves the client as if its frame had not been sent, but
\* for the event: the connection stays open, no request is settled or
\* dropped, and the frame g after it has its effect.
UnexpectedMessageSkipped ==
  Receiving =>
    \A message \in Messages, f, g \in GoodFrames \cup {<<>>} :
      (/\ FromOf(message) # NoFrom
       /\ FromOf(message) \notin DOMAIN onData(Self, f).activeRequests) =>
        LET with == onData(Self, f \o Frame(Stringify(message)) \o g)
            without == onData(Self, f \o g)
        IN  /\ with.emitted = without.emitted \cup {"error:unexpected"}
            /\ with.requests = without.requests
            /\ with.pendingRequests = without.pendingRequests
            /\ with.activeRequests = without.activeRequests
            /\ with.wire = without.wire
            /\ with.sockets = without.sockets
            /\ \A s \in DOMAIN sockets :
                 /\ with.sockets[s].state = sockets[s].state
                 /\ with.sockets[s].listeners = sockets[s].listeners
            /\ with.incomingData = <<>>
            /\ ~with.hung

UnexpectedMessageWitness ==
  /\ emitted = {"error:unexpected"}
  /\ incomingData = <<>>
  /\ connection # 0
  /\ sockets[connection].state = "open"
  /\ sockets[connection].listeners
  /\ pendingRequests # <<>>
  /\ \E i, j \in DOMAIN requests :
       /\ requests[i].log = <<"write">>
       /\ requests[j].log = <<>>

(***************************************************************************)
(* Properties of Serve.                                                    *)
(***************************************************************************)
\* C5: two onChange cycles are never in progress at the same time.
CyclesNeverOverlap == Len(cycles) <= 1

\* C6: one timeout at most is armed, it expires DebounceMs after the latest
\* change, every burst of changes has started its one cycle or still has
\* its timeout armed, and a cycle starts only after DebounceMs without a
\* change.
DebounceState ==
  /\ timers = (IF timeoutId = Null THEN {} ELSE {timeoutId})
  /\ (timeoutId # Null) <=> (pendingArgs # NoArgs)
  /\ timeoutId # Null => timeoutId = DebounceMs - sinceChange
  /\ bursts = started + (IF pendingArgs # NoArgs THEN 1 ELSE 0)

OneCyclePerBurst ==
  /\ []DebounceState
  /\ [][started' # started =>
          (started' = started + 1 /\ sinceChange = DebounceMs)]_vars

OneCyclePerBurstWitness ==
  /\ changes > 1
  /\ bursts = 1
  /\ started = 1

Reloading(cycle) ==
  CycleAwaits(cycle.path)[cycle.at] \in {"runner.reload", "serve:onReloaded"}

ExitKillsAndTerminates ==
  shutdown # <<>> =>
    /\ Len(shutdown) = 4
    /\ shutdown[1][1] = "runner.exit"
    /\ shutdown[2][1] = "killZotero"
    /\ shutdown[2][2] \in {"killed", "kill failed", "no command", "not running"}
    /\ shutdown[3] = Call2("serve:exit", "called")
    /\ shutdown[4] = Call2("process.exit", "0")
    /\ exited = 0
    /\ ~alive

ExitWitness ==
  /\ shutdown # <<>>
  /\ shutdown[1] = Call2("runner.exit", "hung")
  /\ shutdown[2] = Call2("killZotero", "kill failed")
  /\ exited = 0
  /\ cycles # <<>>

\* C28: when no step has failed, a cycle that started after the change of
\* a file that is not a script calls reload() only when a run of the full
\* pipeline that covers the change has completed.
AssetChangeFullyRebuilt ==
  \A i \in DOMAIN cycles :
    (/\ failures = 0
     /\ Reloading(cycles[i])
     /\ assetChange # 0
     /\ assetChange <= cycles[i].seen)
      => fullBuild >= assetChange

(***************************************************************************)
(* Properties of Test.                                                     *)
(***************************************************************************)
Count(seq, x) == Cardinality({i \in DOMAIN seq : seq[i] = x})

\* C19: the passed counter is the number of `pass` events received and the
\* failed counter the number of `fail` events received.
ResultsCounted ==
  /\ passed = Count(posted, "pass")
  /\ failed = Count(posted, "fail")

\* C20: with exitOnFinish, the process that exits on the `end` event exits
\* with code 1 if a `fail` event was received in the run and with code 0
\* otherwise.
ExitCodeTellsFailure ==
  (/\ exitOnFinish
   /\ exitCode # Null
   /\ posted # <<>>
   /\ posted[Len(posted)] = "end")
    => exitCode = (IF Count(posted, "fail") > 0 THEN 1 ELSE 0)

\* C21, as claimed: with abortOnFail, once a `fail` event has been received
\* the process has exited with code 1.
AbortOnFailExits ==
  (abortOnFail /\ Count(posted, "fail") > 0) => exitCode = 1

\* C21, amended: with abortOnFail and exitOnFinish, the first `fail` event
\* received is the last event handled: the process has exited with code 1
\* on it, no `end` event was waited for, and the listener was closed.
AbortAndExitOnFail ==
  (abortOnFail /\ exitOnFinish /\ Count(posted, "fail") > 0) =>
    /\ exitCode = 1
    /\ posted[Len(posted)] = "fail"
    /\ Count(posted, "fail") = 1
    /\ Count(posted, "end") = 0
    /\ closes = 1

AbortAndExitWitness ==
  /\ abortOnFail
  /\ exitOnFinish
  /\ Len(posted) > 1
  /\ posted[Len(posted)] = "fail"
  /\ exitCode = 1
  /\ "end" \notin {outbox[i] : i \in DOMAIN outbox}

\* C22: the listener is never closed twice, and it has been closed once
\* when the process has ended.
ClosedExactlyOnce ==
  /\ closes <= 1
  /\ exitCode # Null => closes = 1

Last(seq) == seq[Len(seq)]

NonJson(req) ==
  /\ req.method = "POST"
  /\ req.url = "/update"
  /\ ParseBody(req.body).kind = "SyntaxError"

\* C23: a POST /update whose body is not JSON is answered with a 4xx
\* status and changes nothing of the test run: no close, no exit, no event
\* received; the listener goes on as before it.
NonJsonRefused ==
  [][(Len(exchanges') > Len(exchanges) /\ NonJson(Last(exchanges').request))
       => /\ Last(exchanges').response.status \in 400..499
          /\ closes' = closes
          /\ exitCode' = exitCode
          /\ posted' = posted
          /\ closes' = 0
          /\ exitCode' = Null]_vars

NonJsonRefusedWitness ==
  \E i, j \in DOMAIN exchanges :
    /\ i < j
    /\ NonJson(exchanges[i].request)
    /\ exchanges[i].response = InvalidJson
    /\ exchanges[j].request = HttpRequest("POST", "/update", Sent("pass"))
    /\ exchanges[j].response = Ack
    /\ posted = <<"pass">>

WellFormed(body) ==
  /\ ParseBody(body).kind = "object"
  /\ ParseBody(body).type \in EventTypes
  /\ ParseBody(body).data # "nostr"

\* C29: every request was answered by its method and path: GET / with the
\* liveness text and status 200, POST /update of a well-formed event with
\* the JSON acknowledgement and status 200, any other method or path with
\* status 404; and a request of any other method or path changes nothing.
RoutedByMethodAndPath ==
  /\ \A i \in DOMAIN exchanges :
       LET req == exchanges[i].request
           response == exchanges[i].response
       IN  IF req.method = "GET" /\ req.url = "/"
             THEN response.status = 200 /\ response.contentType = "text/plain"
           ELSE IF req.method = "POST" /\ req.url = "/update"
             THEN WellFormed(req.body) =>
                    /\ response.status = 200
                    /\ response.contentType = "application/json"
           ELSE response.status = 404
  /\ \A req \in HttpRequests :
       (req.url # "/update" \/ req.method # "POST") =>
         /\ requestListener(TestSelf, req).t = TestSelf
         /\ Received(req) = <<>>

(***************************************************************************)
(* Properties of Test.run.                                                 *)
(***************************************************************************)
\* C24: from the moment the port of the listener is chosen to the moment
\* the listener is bound to it, no other process is bound to that port.
PortChosenAtomically ==
  (step \in DOMAIN TestSteps /\ free # Null /\ bound = Null) =>
    free \notin taken

\* C25: a generated bootstrap and a generated test page carry the port the
\* listener is bound to, and when the target is launched the listener is
\* bound and both files carry its port.
ListenerBeforeInjection ==
  /\ bootstrap # <<>> => (bound # Null /\ bootstrap = <<bound>>)
  /\ page # <<>> => (bound # Null /\ page = <<bound>>)
  /\ launched =>
       /\ bound # Null
       /\ port = bound
       /\ bootstrap = <<bound>>
       /\ page = <<bound>>

ListenerBeforeInjectionWitness ==
  /\ launched
  /\ step = Returned
  /\ bound \in Ports
  /\ bootstrap = <<bound>>
  /\ page = <<bound>>
  /\ taken # {}

(***************************************************************************)
(* Properties of PrefsManager.                                             *)
(***************************************************************************)
\* C30: setPref(key, null) removes the preference: after it getPref(key)
\* is undefined and getPrefs() has no such key, whatever was stored for
\* the key before, and every other key is as it was.
NullRemovesPref ==
  /\ \A key \in PrefKeys :
       LET after == setPref(prefs, key, PrefNull)
       IN  /\ getPref(after, key) = Undefined
           /\ key \notin DOMAIN getPrefs(after)
           /\ DOMAIN getPrefs(after) = DOMAIN getPrefs(prefs) \ {key}
           /\ \A other \in PrefKeys \ {key} :
                getPref(after, other) = getPref(prefs, other)
  /\ (lastSet # <<>> /\ lastSet[2] = PrefNull) =>
       /\ getPref(prefs, lastSet[1]) = Undefined
       /\ lastSet[1] \notin DOMAIN getPrefs(prefs)

NullRemovesWitness ==
  /\ lastSet # <<>>
  /\ lastSet[2] = PrefNull
  /\ lastSet[3] \in PrefValues
  /\ DOMAIN prefs # {}

CycleOfLatestPath ==
  /\ Len(changed) = changes
  /\ \A i \in DOMAIN cycles :
       /\ cycles[i].path = changed[cycles[i].seen]
       /\ CycleAwaits(cycles[i].path)[2] = BuildStep(changed[cycles[i].seen])
  /\ pendingArgs # NoArgs => pendingArgs = changed[changes]
  /\ (timers = {} /\ alive) => pendingArgs = NoArgs

\* Two changes of different kinds in one window, and the cycle of the
\* window past its build step.
CycleOfLatestPathWitness ==
  /\ changes = 2
  /\ bursts = 1
  /\ BuildStep(changed[1]) # BuildStep(changed[2])
  /\ \E i \in DOMAIN cycles :
       /\ cycles[i].seen = 2
       /\ cycles[i].rebuilt
       /\ cycles[i].path = changed[2]

\* The awaits a cycle has begun, in order.
Begun(cycle) == SubSeq(CycleAwaits(cycle.path), 1, cycle.at)

\* C33: a cycle of a .ts or .tsx path begins builder.esbuild and never
\* builder.run, a cycle of any other path begins builder.run and never
\* builder.esbuild; it begins the reload at most once, after its build
\* step and only when that step has succeeded, and then always.
OneBuildStepThenReload ==
  \A i \in DOMAIN cycles :
    LET cycle == cycles[i]
        calls == Begun(cycle)
        script == endsWith(cycle.path, ".ts") \/ endsWith(cycle.path, ".tsx")
        chosen == IF script THEN "builder.esbuild" ELSE "builder.run"
        other == IF script THEN "builder.run" ELSE "builder.esbuild"
    IN  /\ Count(calls, other) = 0
        /\ Count(calls, chosen) <= 1
        /\ Count(calls, "runner.reload") <= 1
        /\ cycle.rebuilt <=> (Count(calls, "runner.reload") = 1)
        /\ cycle.rebuilt =>
             \E b, r \in DOMAIN calls :
               b < r /\ calls[b] = chosen /\ calls[r] = "runner.reload"

\* A cycle of each kind of path at its reload.
OneBuildStepWitness ==
  \E i, j \in DOMAIN cycles :
    /\ endsWith(cycles[i].path, ".tsx")
    /\ endsWith(cycles[j].path, ".css")
    /\ Begun(cycles[i])[cycles[i].at] = "runner.reload"
    /\ Begun(cycles[j])[cycles[j].at] = "runner.reload"

\* C34: when an await of a cycle fails, at its build step as at any other,
\* the cycle ends there and the target keeps the build it had loaded; the
\* target loads another build only by the reload of a cycle whose build
\* step succeeded.
FailedCycleLeavesTarget ==
  [][/\ failures' > failures =>
          /\ Len(cycles') = Len(cycles) - 1
          /\ \A j \in DOMAIN cycles' : \E i \in DOMAIN cycles :
                cycles'[j] = cycles[i]
          /\ target' = target
     /\ target' # target =>
          \E i \in DOMAIN cycles :
            /\ cycles[i].seen = target'
            /\ cycles[i].rebuilt
            /\ Begun(cycles[i])[cycles[i].at] = "runner.reload"]_vars

\* The build step of one cycle has failed, and a later cycle has reloaded
\* the target.
FailedCycleWitness ==
  /\ failures = 1
  /\ started = 2
  /\ target = 2
  /\ logged = 1
  /\ cycles = <<>>

\* C35: after every operation of the client no request is queued for an
\* actor that has no request in flight, and a request() to such an actor
\* is written during the call.
FlushWorkConserving ==
  ~hung =>
    \A i \in DOMAIN pendingRequests :
      pendingRequests[i].to \in DOMAIN activeRequests

\* C37: a request whose promise is rejected is not written afterwards and
\* is not in the pending queue.
RejectedNeverWritten ==
  \A id \in DOMAIN requests :
    Outcome(requests[id].log) \in Rejections =>
      /\ \A i \in DOMAIN pendingRequests : pendingRequests[i].id # id
      /\ \A i, j \in DOMAIN requests[id].log :
           (requests[id].log[i] \in Rejections /\ i < j) =>
             requests[id].log[j] # "write"

\* The requests of the client that are addressed to root.
ToRoot == {id \in DOMAIN requests : requests[id].to = "root"}

DecodeLoopTerminates == ~hung

\* C39: every step of Build.run reads a file as the step before it that
\* writes the file left it, complete; when run() resolves no write is under
\* way and the manifest on disk is the one makeManifest made.
OutputsCompleteBeforeUse ==
  /\ \A i \in DOMAIN readLog : readLog[i].saw = readLog[i].expected
  /\ buildAt = BuildResolved =>
       /\ floating = {}
       /\ enable => disk["manifest.json"] = "makeManifest"

====
